---- MODULE Spec2Model ----
(***************************************************************************)
(* Subscription & Billing Reconciliation Engine of the rental-management   *)
(* backend: Plan Catalog, Plan Limits Cache, Organization Subscription     *)
(* Record, Quota Enforcement, Webhook Reconciler and Event Audit Log.      *)
(*                                                                         *)
(* Every await of the TypeScript code is one atomic step of the process    *)
(* that executes it; code between two awaits runs without interleaving     *)
(* (single-threaded event loop), storage operations are atomic.            *)
(***************************************************************************)
EXTENDS Integers, FiniteSets, Sequences, TLC

VARIABLES
  catalog,          \* SubscriptionType collection: plan key -> document
  planLimitsCache,  \* module variable planLimitsCache (built = FALSE is null)
  cacheTimestamp,   \* module variable cacheTimestamp
  now,              \* Date.now()
  org,              \* Organization collection: id -> document
  rows,             \* BillingEvent documents that carry a stripeEventId
  audit,            \* BillingEvent documents without stripeEventId (a bag)
  del,              \* webhook deliveries in flight: one handleWebhookEvent call each
  handlerCalls,     \* per event: times the type-specific handler was invoked
  applied,          \* per event: times the handler ran to completion
  attempts,         \* per event: deliveries started
  faultsLeft,       \* transient storage faults the environment may still inject
  pq,               \* plan requests in flight: getPlanLimits, create, update, deactivate
  planOps,          \* plan requests started
  history,          \* every state the SubscriptionType collection has had
  committed,        \* index in history of the latest write whose mutation has returned
  prevStamp,        \* cacheTimestamp at the latest invalidateCache
  users,            \* User collection of organization o1: user -> status
  qr,               \* quota requests in flight
  quotaOps,         \* quota requests started
  start,            \* organization o1 and its users as the behaviour began
  netDelta,         \* sum of the deltas of the catalog-counter calls that returned
  seatDelta,        \* sum of the +1 / -1 of the seat-changing calls that returned
  overlap,          \* a quota request began while another was in progress
  materials,        \* MaterialModel documents: ids present, documents created
  provider,         \* objects created at the payment provider, calls it rejected
  cs,               \* checkout and portal session requests in flight
  csOps             \* checkout and portal session requests started

planVars == <<catalog, planLimitsCache, cacheTimestamp, now>>
checkoutVars == <<provider, cs, csOps>>
deliveryVars == <<rows, audit, del, handlerCalls, applied, attempts, faultsLeft>>
hookVars == <<rows, audit, del, handlerCalls, applied, attempts, faultsLeft,
              checkoutVars>>
planReqVars == <<pq, planOps, history, committed, prevStamp>>
quotaVars == <<users, qr, quotaOps, start, netDelta, seatDelta, overlap, materials>>
apiVars == <<pq, planOps, history, committed, prevStamp, users, qr, quotaOps,
             start, netDelta, seatDelta, overlap, materials, checkoutVars>>
vars == <<catalog, planLimitsCache, cacheTimestamp, now, org, rows, audit, del,
          handlerCalls, applied, attempts, faultsLeft, pq, planOps, history,
          committed, prevStamp, users, qr, quotaOps, start, netDelta, seatDelta,
          overlap, materials, provider, cs, csOps>>

(***************************************************************************)
(* Bounds                                                                  *)
(***************************************************************************)
MaxDeliveries == 4      \* deliveries the provider makes in one behaviour
MaxFaults == 1          \* transient storage faults in one behaviour
MaxPlanOps == 3         \* plan requests (reads and mutations) in one behaviour
MaxTicks == 3           \* clock ticks in one behaviour
MaxQuotaOps == 3        \* quota requests in one behaviour
MaxDelta == 2           \* largest count passed to increment / decrement
MaxCheckoutOps == 3     \* checkout and portal session requests in one behaviour
MaxProviderFailures == 1  \* provider calls that reject in one behaviour
MaxRequests == 2        \* requests of all kinds in one behaviour that mixes them

Workers == {1, 2}       \* request handlers that may run concurrently

(***************************************************************************)
(* Plan Catalog and Plan Limits Cache                                      *)
(***************************************************************************)
CACHE_TTL_MS == 300000

PlanKeys == {"free", "starter", "professional", "enterprise", "team"}

\* stripePriceIdBase / stripePriceIdSeat: 0 is undefined, n > 0 the n-th
\* price object the provider created
NoPlan == [exists |-> FALSE, status |-> "inactive", billingModel |-> "fixed",
           maxSeats |-> -1, maxCatalogItems |-> -1,
           stripePriceIdBase |-> 0, stripePriceIdSeat |-> 0]

\* seedDefaults: the four plans every installation starts with
SeedCatalog ==
  [p \in PlanKeys |->
     CASE p = "free" ->
            [exists |-> TRUE, status |-> "active", billingModel |-> "fixed",
             maxSeats |-> 1, maxCatalogItems |-> 10,
             stripePriceIdBase |-> 0, stripePriceIdSeat |-> 0]
       [] p = "starter" ->
            [exists |-> TRUE, status |-> "active", billingModel |-> "dynamic",
             maxSeats |-> 5, maxCatalogItems |-> 100,
             stripePriceIdBase |-> 0, stripePriceIdSeat |-> 0]
       [] p = "professional" ->
            [exists |-> TRUE, status |-> "active", billingModel |-> "dynamic",
             maxSeats |-> 20, maxCatalogItems |-> 500,
             stripePriceIdBase |-> 0, stripePriceIdSeat |-> 0]
       [] p = "enterprise" ->
            [exists |-> TRUE, status |-> "active", billingModel |-> "dynamic",
             maxSeats |-> -1, maxCatalogItems |-> -1,
             stripePriceIdBase |-> 0, stripePriceIdSeat |-> 0]
       [] OTHER -> NoPlan]

NullCache == [built |-> FALSE, map |-> <<>>]

\* SubscriptionType.find({status: "active"}) turned into the PlanLimits map
BuildMap(cat) ==
  [p \in {k \in PlanKeys : cat[k].exists /\ cat[k].status = "active"} |->
     [billingModel |-> cat[p].billingModel, maxSeats |-> cat[p].maxSeats,
      maxCatalogItems |-> cat[p].maxCatalogItems,
      stripePriceIdBase |-> cat[p].stripePriceIdBase,
      stripePriceIdSeat |-> cat[p].stripePriceIdSeat]]

\* the test of getAllPlanLimits that serves the cached map
CacheValid == planLimitsCache.built /\ now - cacheTimestamp < CACHE_TTL_MS

\* getAllPlanLimits run without interleaving: the map it returns
getAllPlanLimits == IF CacheValid THEN planLimitsCache.map ELSE BuildMap(catalog)

\* the cache variables after such a getAllPlanLimits call
CacheAfterRead ==
  /\ planLimitsCache' = [built |-> TRUE, map |-> getAllPlanLimits]
  /\ cacheTimestamp' = IF CacheValid THEN cacheTimestamp ELSE now
  /\ UNCHANGED <<catalog, now>>

\* getPlanLimits: found is FALSE where the code throws NotFound
getPlanLimits(plan) ==
  IF plan \in DOMAIN getAllPlanLimits
  THEN [found |-> TRUE, limits |-> getAllPlanLimits[plan]]
  ELSE [found |-> FALSE, limits |-> [billingModel |-> "fixed", maxSeats |-> -1,
                                     maxCatalogItems |-> -1,
                                     stripePriceIdBase |-> 0,
                                     stripePriceIdSeat |-> 0]]

\* validateSeatCount: "ok", or the error it throws
validateSeatCount(plan, seatCount) ==
  LET l == getPlanLimits(plan) IN
  IF ~l.found THEN "NOT_FOUND"
  ELSE IF l.limits.billingModel = "fixed"
          /\ l.limits.maxSeats # -1 /\ seatCount > l.limits.maxSeats
       THEN "PLAN_LIMIT_REACHED"
       ELSE "ok"

(***************************************************************************)
(* Plan requests: getPlanLimits and the Plan Catalog mutations, one step   *)
(* per await                                                               *)
(***************************************************************************)
\* the clock advances in steps of half the freshness window
TickMs == CACHE_TTL_MS \div 2

\* plans the modelled admin requests name; "team" is not seeded
PlanTargets == {"starter", "team"}

\* request bodies of POST /subscription-types
CreateInputs ==
  {[exists |-> TRUE, status |-> st, billingModel |-> "fixed", maxSeats |-> 3,
    maxCatalogItems |-> 5, stripePriceIdBase |-> 0, stripePriceIdSeat |-> 0] :
     st \in {"active", "inactive"}}

\* request bodies of PATCH /subscription-types/:plan
UpdateInputs == {[field |-> "maxSeats", value |-> 2],
                 [field |-> "status", value |-> "active"]}

NoLimits == [billingModel |-> "fixed", maxSeats |-> -1, maxCatalogItems |-> -1,
             stripePriceIdBase |-> 0, stripePriceIdSeat |-> 0]

IdlePlanRequest ==
  [pc |-> "idle", op |-> "none", plan |-> "starter", data |-> NoPlan,
   localNow |-> 0, map |-> <<>>, res |-> "none", need |-> 1, wrote |-> 0]

\* cache.get(plan) of getPlanLimits: the limits, or NotFound
Lookup(map, plan) ==
  IF plan \in DOMAIN map THEN [status |-> "ok", limits |-> map[plan]]
  ELSE [status |-> "NOT_FOUND", limits |-> NoLimits]

PlanIdle == \A w \in Workers : pq[w].pc = "idle"

\* BeginGetPlanLimits whose freshness test admits an age equal to the window
BeginGetPlanLimitsInclusive(w, p) ==
  /\ pq[w].pc = "idle"
  /\ planOps < MaxPlanOps
  /\ planOps' = planOps + 1
  /\ LET fresh == planLimitsCache.built /\ now - cacheTimestamp <= CACHE_TTL_MS IN
     pq' = [pq EXCEPT ![w] =
              [IdlePlanRequest EXCEPT
                 !.op = "getPlanLimits", !.plan = p, !.localNow = now,
                 !.need = committed,
                 !.pc = IF fresh THEN "done" ELSE "query",
                 !.map = IF fresh THEN planLimitsCache.map ELSE <<>>,
                 !.res = IF fresh THEN Lookup(planLimitsCache.map, p).status
                         ELSE "none"]]
  /\ UNCHANGED <<planVars, history, committed, prevStamp, org, hookVars, quotaVars>>

\* getPlanLimits -> getAllPlanLimits up to its first await: the freshness
\* test on the time read at entry; a fresh map is returned at once
BeginGetPlanLimits(w, p) ==
  /\ pq[w].pc = "idle"
  /\ planOps < MaxPlanOps
  /\ planOps' = planOps + 1
  /\ pq' = [pq EXCEPT ![w] =
              [IdlePlanRequest EXCEPT
                 !.op = "getPlanLimits", !.plan = p, !.localNow = now,
                 !.need = committed,
                 !.pc = IF CacheValid THEN "done" ELSE "query",
                 !.map = IF CacheValid THEN planLimitsCache.map ELSE <<>>,
                 !.res = IF CacheValid THEN Lookup(planLimitsCache.map, p).status
                         ELSE "none"]]
  /\ UNCHANGED <<planVars, history, committed, prevStamp, org, hookVars, quotaVars>>

\* the storage runs SubscriptionType.find({status: "active"})
QueryActive(w) ==
  /\ pq[w].pc = "query"
  /\ pq' = [pq EXCEPT ![w].pc = "install", ![w].map = BuildMap(catalog)]
  /\ UNCHANGED <<planVars, planOps, history, committed, prevStamp, org, hookVars, quotaVars>>

\* the continuation of getAllPlanLimits: planLimitsCache = newCache,
\* cacheTimestamp = now (the time read at entry), then cache.get(plan)
InstallCache(w) ==
  /\ pq[w].pc = "install"
  /\ planLimitsCache' = [built |-> TRUE, map |-> pq[w].map]
  /\ cacheTimestamp' = pq[w].localNow
  /\ pq' = [pq EXCEPT ![w].pc = "done",
              ![w].res = Lookup(pq[w].map, pq[w].plan).status]
  /\ UNCHANGED <<catalog, now, planOps, history, committed, prevStamp, org, hookVars, quotaVars>>

\* create: the storage runs findOne({plan}); Conflict if a document exists
BeginCreate(w, p, data) ==
  /\ pq[w].pc = "idle"
  /\ planOps < MaxPlanOps
  /\ planOps' = planOps + 1
  /\ pq' = [pq EXCEPT ![w] =
              [IdlePlanRequest EXCEPT
                 !.op = "create", !.plan = p, !.data = data,
                 !.pc = IF catalog[p].exists THEN "done" ELSE "save",
                 !.res = IF catalog[p].exists THEN "CONFLICT" ELSE "none"]]
  /\ UNCHANGED <<planVars, history, committed, prevStamp, org, hookVars, quotaVars>>

\* CreateSave on a collection without the unique index on plan
CreateSaveNoIndex(w) ==
  /\ pq[w].pc = "save"
  /\ catalog' = [catalog EXCEPT ![pq[w].plan] = pq[w].data]
  /\ history' = Append(history, catalog')
  /\ pq' = [pq EXCEPT ![w].pc = "invalidate", ![w].wrote = Len(history) + 1]
  /\ UNCHANGED <<planLimitsCache, cacheTimestamp, now, planOps, committed,
                 prevStamp, org, hookVars, quotaVars>>

\* create: the storage runs doc.save(); the unique index on plan rejects a
\* key inserted since the findOne
CreateSave(w) ==
  /\ pq[w].pc = "save"
  /\ IF catalog[pq[w].plan].exists
     THEN /\ pq' = [pq EXCEPT ![w].pc = "done", ![w].res = "E11000"]
          /\ UNCHANGED <<catalog, history>>
     ELSE /\ catalog' = [catalog EXCEPT ![pq[w].plan] = pq[w].data]
          /\ history' = Append(history, catalog')
          /\ pq' = [pq EXCEPT ![w].pc = "invalidate",
                      ![w].wrote = Len(history) + 1]
  /\ UNCHANGED <<planLimitsCache, cacheTimestamp, now, planOps, committed,
                 prevStamp, org, hookVars, quotaVars>>

\* update: the storage runs findOneAndUpdate({plan}, {$set: data})
BeginUpdate(w, p, u) ==
  /\ pq[w].pc = "idle"
  /\ planOps < MaxPlanOps
  /\ planOps' = planOps + 1
  /\ IF catalog[p].exists
     THEN /\ catalog' = [catalog EXCEPT ![p] = [@ EXCEPT ![u.field] = u.value]]
          /\ history' = Append(history, catalog')
          /\ pq' = [pq EXCEPT ![w] =
                      [IdlePlanRequest EXCEPT !.op = "update", !.plan = p,
                         !.pc = "invalidate", !.wrote = Len(history) + 1]]
     ELSE /\ pq' = [pq EXCEPT ![w] =
                      [IdlePlanRequest EXCEPT !.op = "update", !.plan = p,
                         !.pc = "done", !.res = "NOT_FOUND"]]
          /\ UNCHANGED <<catalog, history>>
  /\ UNCHANGED <<planLimitsCache, cacheTimestamp, now, committed, prevStamp, org,
                 hookVars, quotaVars>>

\* BeginDeactivate as a hard delete: the storage runs deleteOne({plan})
BeginDeactivateDeletes(w, p) ==
  /\ pq[w].pc = "idle"
  /\ planOps < MaxPlanOps
  /\ planOps' = planOps + 1
  /\ IF catalog[p].exists
     THEN /\ catalog' = [catalog EXCEPT ![p] = NoPlan]
          /\ history' = Append(history, catalog')
          /\ pq' = [pq EXCEPT ![w] =
                      [IdlePlanRequest EXCEPT !.op = "deactivate", !.plan = p,
                         !.pc = "invalidate", !.wrote = Len(history) + 1]]
     ELSE /\ pq' = [pq EXCEPT ![w] =
                      [IdlePlanRequest EXCEPT !.op = "deactivate", !.plan = p,
                         !.pc = "done", !.res = "NOT_FOUND"]]
          /\ UNCHANGED <<catalog, history>>
  /\ UNCHANGED <<planLimitsCache, cacheTimestamp, now, committed, prevStamp, org,
                 hookVars, quotaVars>>

\* deactivate: the storage runs updateOne({plan}, {$set: {status: "inactive"}})
BeginDeactivate(w, p) ==
  /\ pq[w].pc = "idle"
  /\ planOps < MaxPlanOps
  /\ planOps' = planOps + 1
  /\ IF catalog[p].exists
     THEN /\ catalog' = [catalog EXCEPT ![p].status = "inactive"]
          /\ history' = Append(history, catalog')
          /\ pq' = [pq EXCEPT ![w] =
                      [IdlePlanRequest EXCEPT !.op = "deactivate", !.plan = p,
                         !.pc = "invalidate", !.wrote = Len(history) + 1]]
     ELSE /\ pq' = [pq EXCEPT ![w] =
                      [IdlePlanRequest EXCEPT !.op = "deactivate", !.plan = p,
                         !.pc = "done", !.res = "NOT_FOUND"]]
          /\ UNCHANGED <<catalog, history>>
  /\ UNCHANGED <<planLimitsCache, cacheTimestamp, now, committed, prevStamp, org,
                 hookVars, quotaVars>>

\* Invalidate that leaves the cached map in place
InvalidateKeepsMap(w) ==
  /\ pq[w].pc = "invalidate"
  /\ committed' = IF pq[w].wrote > committed THEN pq[w].wrote ELSE committed
  /\ pq' = [pq EXCEPT ![w].pc = "done", ![w].res = "ok"]
  /\ UNCHANGED <<planVars, prevStamp, planOps, history, org, hookVars, quotaVars>>

\* the continuation of create / update / deactivate: invalidateCache, return
Invalidate(w) ==
  /\ pq[w].pc = "invalidate"
  /\ planLimitsCache' = NullCache
  /\ cacheTimestamp' = 0
  /\ prevStamp' = cacheTimestamp
  /\ committed' = IF pq[w].wrote > committed THEN pq[w].wrote ELSE committed
  /\ pq' = [pq EXCEPT ![w].pc = "done", ![w].res = "ok"]
  /\ UNCHANGED <<catalog, now, planOps, history, org, hookVars, quotaVars>>

\* the response has been sent
FinishPlanRequest(w) ==
  /\ pq[w].pc = "done"
  /\ pq' = [pq EXCEPT ![w] = IdlePlanRequest]
  /\ UNCHANGED <<planVars, planOps, history, committed, prevStamp, org, hookVars, quotaVars>>

\* time passes
Tick ==
  /\ now < CACHE_TTL_MS + MaxTicks * TickMs
  /\ now' = now + TickMs
  /\ UNCHANGED <<catalog, planLimitsCache, cacheTimestamp, planReqVars, org,
                 hookVars, quotaVars>>

BeginPlanRequest(w) ==
  \/ \E p \in PlanTargets : BeginGetPlanLimits(w, p)
  \/ \E data \in CreateInputs : BeginCreate(w, "team", data)
  \/ \E p \in PlanTargets, u \in UpdateInputs : BeginUpdate(w, p, u)
  \/ \E p \in PlanTargets : BeginDeactivate(w, p)

PlanStep(w) ==
  \/ QueryActive(w)
  \/ InstallCache(w)
  \/ CreateSave(w)
  \/ Invalidate(w)
  \/ FinishPlanRequest(w)

(***************************************************************************)
(* Organizations                                                           *)
(***************************************************************************)
Orgs == {"o1", "o2"}

NewOrg(customer) ==
  [status |-> "active", plan |-> "free", seatCount |-> 1, catalogItemCount |-> 0,
   stripeCustomerId |-> customer, stripeSubscriptionId |-> "null",
   currentPeriodEnd |-> 0, cancelAtPeriodEnd |-> FALSE]

\* findByStripeCustomerId: the organizations holding that customer reference
findByStripeCustomerId(customer) ==
  {o \in Orgs : org[o].stripeCustomerId = customer}

\* every organization before any checkout
FreshOrgs == [o \in Orgs |-> NewOrg(IF o = "o1" THEN "cus_1" ELSE "cus_2")]

(***************************************************************************)
(* Quota Enforcement: organizationService, authService.inviteUser,         *)
(* userService.reactivate; requests act on organization o1                 *)
(***************************************************************************)
Users == {"u1", "u2"}

\* u1 is a deactivated member, u2 has no account yet
\* one material type exists, created by organization o2
StartMaterials == [ids |-> {0}, created |-> 0]

StartUsers == [u \in Users |-> IF u = "u1" THEN "inactive" ELSE "none"]

\* counter values an organization may hold when a behaviour begins: low, and
\* around the plan's limit
StartValues(max, low) ==
  IF max = -1 THEN {low, 7} ELSE {low, max - 1, max} \cap (low .. max)

\* organization o1 after earlier checkouts and catalog work
QuotaOrgs ==
  UNION {{[FreshOrgs EXCEPT !["o1"].plan = p, !["o1"].seatCount = sc,
                            !["o1"].catalogItemCount = cc,
                            !["o1"].stripeSubscriptionId =
                               IF p = "free" THEN "null" ELSE "sub_1",
                            !["o2"].catalogItemCount = 1] :
            sc \in StartValues(SeedCatalog[p].maxSeats, 1),
            cc \in StartValues(SeedCatalog[p].maxCatalogItems, 0)} :
         p \in {"free", "starter", "enterprise"}}

IdleQuotaRequest ==
  [pc |-> "idle", op |-> "none", delta |-> 0, user |-> "u1", plan |-> "free",
   count |-> 0, can |-> FALSE, err |-> "none", resource |-> "none",
   target |-> 0, net |-> 0, status |-> "unknown", immediately |-> FALSE]

QuotaIdle == \A w \in Workers : qr[w].pc = "idle"

\* a thrown AppError: its details.code (or its code) and details.resource
Fail(w, code, resource) ==
  qr' = [qr EXCEPT ![w].pc = "done", ![w].err = code, ![w].resource = resource]

Goto(w, pcv) == qr' = [qr EXCEPT ![w].pc = pcv]

\* a route handler calls into the service
BeginQuotaRequest(w, op, delta, u) ==
  /\ qr[w].pc = "idle"
  /\ quotaOps < MaxQuotaOps
  /\ quotaOps' = quotaOps + 1
  /\ qr' = [qr EXCEPT ![w] =
              [IdleQuotaRequest EXCEPT
                 !.op = op, !.delta = delta, !.user = u,
                 !.pc = CASE op = "canAddCatalogItem" -> "cai.find"
                          [] op = "increment" -> "inc.find"
                          [] op = "decrement" -> "dec.write"
                          [] op = "deactivate" -> "dea.find"
                          [] op = "delete" -> "del.find"
                          [] op = "updateSeats" -> "usq.find"
                          [] OTHER -> "cas.find"]]
  /\ overlap' = (overlap \/ \E v \in Workers \ {w} : qr[v].pc # "idle")
  /\ UNCHANGED <<planVars, org, users, start, netDelta, seatDelta, materials,
                 planReqVars, hookVars>>

\* validateCatalogItemCount: "ok", or the error it throws
validateCatalogItemCount(plan, currentCount, addingCount) ==
  LET l == getPlanLimits(plan) IN
  IF ~l.found THEN "NOT_FOUND"
  ELSE IF l.limits.maxCatalogItems # -1
          /\ currentCount + addingCount > l.limits.maxCatalogItems
       THEN "PLAN_LIMIT_REACHED"
       ELSE "ok"

\* canAddCatalogItem
canAddCatalogItem(w) ==
  /\ qr[w].pc \in {"cai.find", "cai.limits"}
  /\ IF qr[w].pc = "cai.find"
     THEN \* Organization.findById(...).select("subscription")
          /\ qr' = [qr EXCEPT ![w].pc = "cai.limits", ![w].plan = org["o1"].plan,
                      ![w].count = org["o1"].catalogItemCount]
          /\ UNCHANGED planVars
     ELSE \* getPlanLimits, then the comparison
          /\ CacheAfterRead
          /\ IF ~getPlanLimits(qr[w].plan).found
             THEN Fail(w, "NOT_FOUND", "none")
             ELSE qr' = [qr EXCEPT ![w].pc = "done",
                           ![w].can =
                              LET l == getPlanLimits(qr[w].plan).limits IN
                              IF l.maxCatalogItems = -1 THEN TRUE
                              ELSE qr[w].count < l.maxCatalogItems]
  /\ UNCHANGED <<org, users, quotaOps, start, netDelta, seatDelta, overlap, materials,
                 planReqVars, hookVars>>

\* incrementCatalogItemCount whose write stores the count read plus the delta
incrementReadModifyWrite(w) ==
  /\ qr[w].pc \in {"inc.find", "inc.validate", "inc.write"}
  /\ CASE qr[w].pc = "inc.find" ->
            /\ qr' = [qr EXCEPT ![w].pc = "inc.validate",
                        ![w].plan = org["o1"].plan,
                        ![w].count = org["o1"].catalogItemCount]
            /\ UNCHANGED <<planVars, org>>
       [] qr[w].pc = "inc.validate" ->
            /\ CacheAfterRead
            /\ IF validateCatalogItemCount(qr[w].plan, qr[w].count, qr[w].delta)
                    = "ok"
               THEN Goto(w, "inc.write")
               ELSE Fail(w, validateCatalogItemCount(qr[w].plan, qr[w].count,
                                                     qr[w].delta),
                         "catalog_items")
            /\ UNCHANGED org
       [] OTHER ->
            /\ org' = [org EXCEPT !["o1"].catalogItemCount = qr[w].count + qr[w].delta]
            /\ qr' = [qr EXCEPT ![w].net = @ + qr[w].delta,
                        ![w].pc = IF qr[w].op = "createType" THEN "mat.create"
                                  ELSE "done"]
            /\ UNCHANGED planVars
  /\ UNCHANGED <<users, quotaOps, start, netDelta, seatDelta, overlap, materials,
                 planReqVars, hookVars>>

\* incrementCatalogItemCount that skips validateCatalogItemCount
incrementUnchecked(w) ==
  /\ qr[w].pc \in {"inc.find", "inc.validate", "inc.write"}
  /\ CASE qr[w].pc = "inc.find" ->
            /\ qr' = [qr EXCEPT ![w].pc = "inc.validate",
                        ![w].plan = org["o1"].plan,
                        ![w].count = org["o1"].catalogItemCount]
            /\ UNCHANGED <<planVars, org>>
       [] qr[w].pc = "inc.validate" ->
            /\ CacheAfterRead
            /\ Goto(w, "inc.write")
            /\ UNCHANGED org
       [] OTHER ->
            /\ org' = [org EXCEPT !["o1"].catalogItemCount = @ + qr[w].delta]
            /\ qr' = [qr EXCEPT ![w].net = @ + qr[w].delta,
                        ![w].pc = IF qr[w].op = "createType" THEN "mat.create"
                                  ELSE "done"]
            /\ UNCHANGED planVars
  /\ UNCHANGED <<users, quotaOps, start, netDelta, seatDelta, overlap, materials,
                 planReqVars, hookVars>>

\* incrementCatalogItemCount
incrementCatalogItemCount(w) ==
  /\ qr[w].pc \in {"inc.find", "inc.validate", "inc.write"}
  /\ CASE qr[w].pc = "inc.find" ->
            \* Organization.findById(...).select("subscription")
            /\ qr' = [qr EXCEPT ![w].pc = "inc.validate",
                        ![w].plan = org["o1"].plan,
                        ![w].count = org["o1"].catalogItemCount]
            /\ UNCHANGED <<planVars, org>>
       [] qr[w].pc = "inc.validate" ->
            \* validateCatalogItemCount(plan, currentCount, count)
            /\ CacheAfterRead
            /\ IF validateCatalogItemCount(qr[w].plan, qr[w].count, qr[w].delta)
                    = "ok"
               THEN Goto(w, "inc.write")
               ELSE Fail(w, validateCatalogItemCount(qr[w].plan, qr[w].count,
                                                     qr[w].delta),
                         IF validateCatalogItemCount(qr[w].plan, qr[w].count,
                                                     qr[w].delta)
                              = "PLAN_LIMIT_REACHED"
                         THEN "catalog_items" ELSE "none")
            /\ UNCHANGED org
       [] OTHER ->
            \* updateOne({$inc: {"subscription.catalogItemCount": count}})
            /\ org' = [org EXCEPT !["o1"].catalogItemCount = @ + qr[w].delta]
            /\ qr' = [qr EXCEPT ![w].net = @ + qr[w].delta,
                        ![w].pc = IF qr[w].op = "createType" THEN "mat.create"
                                  ELSE "done"]
            /\ UNCHANGED planVars
  /\ UNCHANGED <<users, quotaOps, start, netDelta, seatDelta, overlap, materials,
                 planReqVars, hookVars>>

\* decrementCatalogItemCount: updateOne({$inc: {...: -count}})
decrementCatalogItemCount(w) ==
  /\ qr[w].pc = "dec.write"
  /\ org' = [org EXCEPT !["o1"].catalogItemCount = @ - qr[w].delta]
  /\ qr' = [qr EXCEPT ![w].pc = "done", ![w].net = @ - qr[w].delta]
  /\ UNCHANGED <<planVars, users, quotaOps, start, netDelta, seatDelta, overlap, materials,
                 planReqVars, hookVars>>

\* a material route of organization o1 begins: POST /materials/types or
\* DELETE /materials/types/:id
BeginMaterialRequest(w, op, id) ==
  /\ qr[w].pc = "idle"
  /\ quotaOps < MaxQuotaOps
  /\ quotaOps' = quotaOps + 1
  /\ qr' = [qr EXCEPT ![w] =
              [IdleQuotaRequest EXCEPT
                 !.op = op, !.delta = 1, !.target = id,
                 !.pc = IF op = "createType" THEN "inc.find" ELSE "dty.count"]]
  /\ overlap' = (overlap \/ \E v \in Workers \ {w} : qr[v].pc # "idle")
  /\ UNCHANGED <<planVars, org, users, start, netDelta, seatDelta, materials,
                 planReqVars, hookVars>>

\* POST /materials/types whose failed creation skips the rollback
createMaterialTypeNoRollback(w) ==
  /\ qr[w].pc = "mat.create"
  /\ \/ /\ materials' = [ids |-> materials.ids \cup {materials.created + 1},
                         created |-> materials.created + 1]
        /\ Goto(w, "done")
     \/ /\ Fail(w, "CREATE_FAILED", "none")
        /\ UNCHANGED materials
  /\ UNCHANGED <<planVars, org, users, quotaOps, start, netDelta, seatDelta,
                 overlap, planReqVars, hookVars>>

\* POST /materials/types after incrementCatalogItemCount returned:
\* MaterialModel.create, and the rollback when it rejects
createMaterialType(w) ==
  /\ qr[w].pc = "mat.create"
  /\ \/ /\ materials' = [ids |-> materials.ids \cup {materials.created + 1},
                         created |-> materials.created + 1]
        /\ Goto(w, "done")
     \/ /\ qr' = [qr EXCEPT ![w].pc = "dec.write", ![w].err = "CREATE_FAILED"]
        /\ UNCHANGED materials
  /\ UNCHANGED <<planVars, org, users, quotaOps, start, netDelta, seatDelta,
                 overlap, planReqVars, hookVars>>

\* DELETE /materials/types/:id up to its decrementCatalogItemCount call
deleteMaterialType(w) ==
  /\ qr[w].pc \in {"dty.count", "dty.delete"}
  /\ IF qr[w].pc = "dty.count"
     THEN \* MaterialInstance.countDocuments({modelId})
          /\ Goto(w, "dty.delete") \/ Fail(w, "BAD_REQUEST", "none")
          /\ UNCHANGED materials
     ELSE \* MaterialModel.findByIdAndDelete(req.params.id)
          IF qr[w].target \in materials.ids
          THEN /\ materials' = [materials EXCEPT !.ids = @ \ {qr[w].target}]
               /\ Goto(w, "dec.write")
          ELSE /\ Fail(w, "NOT_FOUND", "none")
               /\ UNCHANGED materials
  /\ UNCHANGED <<planVars, org, users, quotaOps, start, netDelta, seatDelta,
                 overlap, planReqVars, hookVars>>

\* canAddSeat that admits a seat while the count equals the maximum
canAddSeatOffByOne(w) ==
  /\ qr[w].pc \in {"cas.find", "cas.limits"}
  /\ IF qr[w].pc = "cas.find"
     THEN /\ qr' = [qr EXCEPT ![w].pc = "cas.limits", ![w].plan = org["o1"].plan,
                      ![w].count = org["o1"].seatCount]
          /\ UNCHANGED planVars
     ELSE /\ CacheAfterRead
          /\ IF ~getPlanLimits(qr[w].plan).found
             THEN Fail(w, "NOT_FOUND", "none")
             ELSE LET l == getPlanLimits(qr[w].plan).limits
                      can == IF l.maxSeats = -1 THEN TRUE
                             ELSE qr[w].count <= l.maxSeats
                  IN
                  CASE qr[w].op = "canAddSeat" ->
                         qr' = [qr EXCEPT ![w].pc = "done", ![w].can = can]
                    [] qr[w].op = "invite" ->
                         IF can THEN Goto(w, "inv.findUser")
                         ELSE Fail(w, "PLAN_LIMIT_REACHED", "seats")
                    [] OTHER ->
                         IF can THEN Goto(w, "rea.update")
                         ELSE Fail(w, "PLAN_LIMIT_REACHED", "none")
  /\ UNCHANGED <<org, users, quotaOps, start, netDelta, seatDelta, overlap, materials,
                 planReqVars, hookVars>>

\* canAddSeat, and what inviteUser and reactivate do with its answer before
\* their next await
canAddSeat(w) ==
  /\ qr[w].pc \in {"cas.find", "cas.limits"}
  /\ IF qr[w].pc = "cas.find"
     THEN \* Organization.findById(...).select("subscription")
          /\ qr' = [qr EXCEPT ![w].pc = "cas.limits", ![w].plan = org["o1"].plan,
                      ![w].count = org["o1"].seatCount]
          /\ UNCHANGED planVars
     ELSE \* getPlanLimits, then the comparison
          /\ CacheAfterRead
          /\ IF ~getPlanLimits(qr[w].plan).found
             THEN Fail(w, "NOT_FOUND", "none")
             ELSE LET l == getPlanLimits(qr[w].plan).limits
                      can == IF l.maxSeats = -1 THEN TRUE
                             ELSE qr[w].count < l.maxSeats
                  IN
                  CASE qr[w].op = "canAddSeat" ->
                         qr' = [qr EXCEPT ![w].pc = "done", ![w].can = can]
                    [] qr[w].op = "invite" ->
                         \* inviteUser: {code: PLAN_LIMIT_REACHED, resource: seats}
                         IF can THEN Goto(w, "inv.findUser")
                         ELSE Fail(w, "PLAN_LIMIT_REACHED", "seats")
                    [] OTHER ->
                         \* reactivate: {code: PLAN_LIMIT_REACHED}
                         IF can THEN Goto(w, "rea.update")
                         ELSE Fail(w, "PLAN_LIMIT_REACHED", "none")
  /\ UNCHANGED <<org, users, quotaOps, start, netDelta, seatDelta, overlap, materials,
                 planReqVars, hookVars>>

\* authService.inviteUser after the seat check
inviteUser(w) ==
  /\ qr[w].pc \in {"inv.findUser", "inv.save", "inv.findOrg"}
  /\ CASE qr[w].pc = "inv.findUser" ->
            \* User.findOne({organizationId, email})
            /\ IF users[qr[w].user] # "none"
               THEN Fail(w, "CONFLICT", "none")
               ELSE Goto(w, "inv.save")
            /\ UNCHANGED users
       [] qr[w].pc = "inv.save" ->
            \* userDoc.save() with status "invited"
            /\ users' = [users EXCEPT ![qr[w].user] = "invited"]
            /\ Goto(w, "inv.findOrg")
       [] OTHER ->
            \* Organization.findById: currentSeats
            /\ qr' = [qr EXCEPT ![w].pc = "usc.find", ![w].delta = 1,
                        ![w].count = org["o1"].seatCount + 1]
            /\ UNCHANGED users
  /\ UNCHANGED <<planVars, org, quotaOps, start, netDelta, seatDelta, overlap, materials,
                 planReqVars, hookVars>>

\* userService.reactivate after the seat check
reactivate(w) ==
  /\ qr[w].pc \in {"rea.update", "rea.findOrg"}
  /\ IF qr[w].pc = "rea.update"
     THEN \* User.findOneAndUpdate({_id, status: "inactive"}, {status: "active"})
          IF users[qr[w].user] = "inactive"
          THEN /\ users' = [users EXCEPT ![qr[w].user] = "active"]
               /\ Goto(w, "rea.findOrg")
          ELSE /\ Fail(w, "NOT_FOUND", "none")
               /\ UNCHANGED users
     ELSE \* organizationService.findById: currentSeats
          /\ qr' = [qr EXCEPT ![w].pc = "usc.find", ![w].delta = 1,
                      ![w].count = org["o1"].seatCount + 1]
          /\ UNCHANGED users
  /\ UNCHANGED <<planVars, org, quotaOps, start, netDelta, seatDelta, overlap, materials,
                 planReqVars, hookVars>>

\* the seat update of deactivate and delete: findById, then updateSeatCount
\* with one seat less while more than one seat is counted
ReleaseSeat(w) ==
  IF org["o1"].seatCount > 1
  THEN qr' = [qr EXCEPT ![w].pc = "usc.find", ![w].delta = -1,
                ![w].count = org["o1"].seatCount - 1]
  ELSE Goto(w, "done")

\* userService.deactivate; the requesting user is the owner
deactivateUser(w) ==
  /\ qr[w].pc \in {"dea.find", "dea.save", "dea.findOrg"}
  /\ CASE qr[w].pc = "dea.find" ->
            \* User.findOne({_id, organizationId}), then the self and owner tests
            /\ IF qr[w].user = "owner" THEN Fail(w, "BAD_REQUEST", "none")
               ELSE IF users[qr[w].user] = "none" THEN Fail(w, "NOT_FOUND", "none")
               ELSE Goto(w, "dea.save")
            /\ UNCHANGED users
       [] qr[w].pc = "dea.save" ->
            \* user.status = "inactive"; user.save()
            IF users[qr[w].user] = "none"
            THEN Fail(w, "DOCUMENT_NOT_FOUND", "none") /\ UNCHANGED users
            ELSE /\ users' = [users EXCEPT ![qr[w].user] = "inactive"]
                 /\ Goto(w, "dea.findOrg")
       [] OTHER ->
            ReleaseSeat(w) /\ UNCHANGED users
  /\ UNCHANGED <<planVars, org, quotaOps, start, netDelta, seatDelta, overlap,
                 materials, planReqVars, hookVars>>

\* userService.delete; the requesting user is the owner
deleteUser(w) ==
  /\ qr[w].pc \in {"del.find", "del.delete", "del.findOrg"}
  /\ CASE qr[w].pc = "del.find" ->
            \* User.findOne({_id, organizationId}), then the self and owner tests
            /\ IF qr[w].user = "owner" THEN Fail(w, "BAD_REQUEST", "none")
               ELSE IF users[qr[w].user] = "none" THEN Fail(w, "NOT_FOUND", "none")
               ELSE qr' = [qr EXCEPT ![w].pc = "del.delete",
                             ![w].can = (users[qr[w].user] = "active")]
            /\ UNCHANGED users
       [] qr[w].pc = "del.delete" ->
            \* User.deleteOne({_id}); the seat is released if user.status was active
            /\ users' = [users EXCEPT ![qr[w].user] = "none"]
            /\ Goto(w, IF qr[w].can THEN "del.findOrg" ELSE "done")
       [] OTHER ->
            ReleaseSeat(w) /\ UNCHANGED users
  /\ UNCHANGED <<planVars, org, quotaOps, start, netDelta, seatDelta, overlap,
                 materials, planReqVars, hookVars>>

\* POST /auth/accept-invite with the token mailed to user u
BeginAcceptInvite(w, u) ==
  /\ qr[w].pc = "idle"
  /\ quotaOps < MaxQuotaOps
  /\ quotaOps' = quotaOps + 1
  /\ qr' = [qr EXCEPT ![w] =
              [IdleQuotaRequest EXCEPT !.op = "accept", !.user = u,
                                       !.pc = "acc.find"]]
  /\ overlap' = (overlap \/ \E v \in Workers \ {w} : qr[v].pc # "idle")
  /\ UNCHANGED <<planVars, org, users, start, netDelta, seatDelta, materials,
                 planReqVars, hookVars>>

\* authService.acceptInvite: the token and the user are looked up, the user
\* must be invited, then status active is saved; no seat is counted here
acceptInvite(w) ==
  /\ qr[w].pc \in {"acc.find", "acc.save"}
  /\ IF qr[w].pc = "acc.find"
     THEN \* InviteToken.findOne, User.findById, the test on user.status
          /\ IF users[qr[w].user] = "none" THEN Fail(w, "NOT_FOUND", "none")
             ELSE IF users[qr[w].user] # "invited"
                  THEN Fail(w, "BAD_REQUEST", "none")
                  ELSE Goto(w, "acc.save")
          /\ UNCHANGED users
     ELSE \* user.status = "active"; user.save()
          IF users[qr[w].user] = "none"
          THEN Fail(w, "DOCUMENT_NOT_FOUND", "none") /\ UNCHANGED users
          ELSE /\ users' = [users EXCEPT ![qr[w].user] = "active"]
               /\ Goto(w, "done")
  /\ UNCHANGED <<planVars, org, quotaOps, start, netDelta, seatDelta, overlap,
                 materials, planReqVars, hookVars>>

\* seat counts a PATCH /billing/seats body may carry: positive integers
SeatInputs == {1, 5, 6}

\* billingService.updateSeatQuantity(organizationId, newSeatCount) up to its
\* updateSeatCount call; qr[w].delta holds newSeatCount
updateSeatQuantity(w) ==
  /\ qr[w].pc \in {"usq.find", "usq.validate", "usq.prices", "usq.stripe"}
  /\ CASE qr[w].pc = "usq.find" ->
            \* Organization.findById
            /\ IF org["o1"].stripeSubscriptionId = "null"
               THEN Fail(w, "BAD_REQUEST", "none")
               ELSE qr' = [qr EXCEPT ![w].pc = "usq.validate",
                             ![w].plan = org["o1"].plan]
            /\ UNCHANGED planVars
       [] qr[w].pc = "usq.validate" ->
            \* validateSeatCount(plan, newSeatCount)
            /\ CacheAfterRead
            /\ IF validateSeatCount(qr[w].plan, qr[w].delta) = "ok"
               THEN Goto(w, "usq.prices")
               ELSE Fail(w, validateSeatCount(qr[w].plan, qr[w].delta),
                         IF validateSeatCount(qr[w].plan, qr[w].delta)
                              = "PLAN_LIMIT_REACHED"
                         THEN "seats" ELSE "none")
       [] qr[w].pc = "usq.prices" ->
            \* getOrCreateStripePriceIds(plan): the plan's price ids exist
            \* since its checkout
            /\ CacheAfterRead
            /\ IF qr[w].plan = "free" THEN Fail(w, "INTERNAL", "none")
               ELSE IF ~getPlanLimits(qr[w].plan).found
                    THEN Fail(w, "NOT_FOUND", "none")
                    ELSE Goto(w, "usq.stripe")
       [] OTHER ->
            \* subscriptions.retrieve and subscriptionItems.update at the
            \* provider, either of which may reject
            /\ \/ qr' = [qr EXCEPT ![w].pc = "usc.find", ![w].count = qr[w].delta]
               \/ Fail(w, "PROVIDER_ERROR", "none")
            /\ UNCHANGED planVars
  /\ UNCHANGED <<org, users, quotaOps, start, netDelta, seatDelta, overlap,
                 materials, planReqVars, hookVars>>

\* organizationService.updateSeatCount(organizationId, seatCount)
updateSeatCount(w) ==
  /\ qr[w].pc \in {"usc.find", "usc.validate", "usc.write"}
  /\ CASE qr[w].pc = "usc.find" ->
            \* Organization.findById(...).select("subscription")
            /\ qr' = [qr EXCEPT ![w].pc = "usc.validate", ![w].plan = org["o1"].plan]
            /\ UNCHANGED <<planVars, org>>
       [] qr[w].pc = "usc.validate" ->
            /\ CacheAfterRead
            /\ IF validateSeatCount(qr[w].plan, qr[w].count) = "ok"
               THEN Goto(w, "usc.write")
               ELSE Fail(w, validateSeatCount(qr[w].plan, qr[w].count),
                         IF validateSeatCount(qr[w].plan, qr[w].count)
                              = "PLAN_LIMIT_REACHED"
                         THEN "seats" ELSE "none")
            /\ UNCHANGED org
       [] OTHER ->
            \* updateOne({$set: {"subscription.seatCount": seatCount}})
            /\ org' = [org EXCEPT !["o1"].seatCount = qr[w].count]
            /\ Goto(w, "done")
            /\ UNCHANGED planVars
  /\ UNCHANGED <<users, quotaOps, start, netDelta, seatDelta, overlap, materials,
                 planReqVars, hookVars>>

\* the response has been sent; a catalog-counter call that returned has
\* applied its delta
FinishQuotaRequest(w) ==
  /\ qr[w].pc = "done"
  /\ netDelta' = netDelta
       + (IF qr[w].op \in {"createType", "deleteType"} THEN qr[w].net
          ELSE IF qr[w].err # "none" THEN 0
          ELSE IF qr[w].op = "increment" THEN qr[w].delta
          ELSE IF qr[w].op = "decrement" THEN 0 - qr[w].delta
          ELSE 0)
  /\ seatDelta' = seatDelta
       + (IF qr[w].err = "none"
             /\ qr[w].op \in {"invite", "reactivate", "deactivate", "delete"}
          THEN qr[w].delta ELSE 0)
  /\ qr' = [qr EXCEPT ![w] = IdleQuotaRequest]
  /\ UNCHANGED <<planVars, org, users, quotaOps, start, overlap, materials,
                 planReqVars, hookVars>>

BeginQuota(w) ==
  \/ BeginQuotaRequest(w, "canAddCatalogItem", 0, "u1")
  \/ BeginQuotaRequest(w, "canAddSeat", 0, "u1")
  \/ \E n \in 1 .. MaxDelta : BeginQuotaRequest(w, "increment", n, "u1")
  \/ \E n \in 1 .. MaxDelta : BeginQuotaRequest(w, "decrement", n, "u1")
  \/ \E u \in Users : BeginQuotaRequest(w, "invite", 0, u)
  \/ \E u \in Users : BeginQuotaRequest(w, "reactivate", 0, u)

\* the seat-changing requests of the user routes
BeginSeats(w) ==
  \/ \E u \in Users : BeginQuotaRequest(w, "invite", 0, u)
  \/ \E u \in Users : BeginQuotaRequest(w, "reactivate", 0, u)
  \/ \E u \in Users \cup {"owner"} : BeginQuotaRequest(w, "deactivate", 0, u)
  \/ \E u \in Users \cup {"owner"} : BeginQuotaRequest(w, "delete", 0, u)

SeatStep(w) ==
  \/ canAddSeat(w)
  \/ inviteUser(w)
  \/ reactivate(w)
  \/ deactivateUser(w)
  \/ deleteUser(w)
  \/ updateSeatCount(w)
  \/ FinishQuotaRequest(w)

QuotaStep(w) ==
  \/ canAddCatalogItem(w)
  \/ incrementCatalogItemCount(w)
  \/ decrementCatalogItemCount(w)
  \/ canAddSeat(w)
  \/ inviteUser(w)
  \/ reactivate(w)
  \/ updateSeatCount(w)
  \/ FinishQuotaRequest(w)

(***************************************************************************)
(* Checkout: billingService.createCheckoutSession, createPortalSession and *)
(* getOrCreateStripePriceIds, for organization o1; one step per await      *)
(***************************************************************************)
\* plans a checkout request names
CheckoutPlans == {"free", "starter"}

\* the provider account before any call: per plan the price objects created
NoProviderObjects ==
  [products |-> 0, customers |-> 0, sessions |-> 0, portals |-> 0, failures |-> 0,
   prices |-> [p \in CheckoutPlans |-> [base |-> 0, seat |-> 0]],
   lastPrice |-> 0]

IdleCheckout ==
  [pc |-> "idle", op |-> "none", plan |-> "free", base |-> 0, seat |-> 0,
   needsUpdate |-> FALSE, customer |-> "null", err |-> "none", wrote |-> 0]

CheckoutIdle == \A w \in Workers : cs[w].pc = "idle"

\* a provider call rejects: the error leaves the service
ProviderRejects(w) ==
  /\ provider.failures < MaxProviderFailures
  /\ provider' = [provider EXCEPT !.failures = @ + 1]
  /\ cs' = [cs EXCEPT ![w].pc = "done", ![w].err = "PROVIDER_ERROR"]

\* where getOrCreateStripePriceIds continues once base and seat are known
AfterPrice(base, seat, needsUpdate) ==
  IF base = 0 THEN "gpi.baseProduct"
  ELSE IF seat = 0 THEN "gpi.seatProduct"
  ELSE IF needsUpdate THEN "gpi.persist"
  ELSE "co.find"

\* createCheckoutSession that lets the free plan through to the price lookup
BeginCheckoutNoFreeTest(w, plan) ==
  /\ cs[w].pc = "idle"
  /\ csOps < MaxCheckoutOps
  /\ csOps' = csOps + 1
  /\ cs' = [cs EXCEPT ![w] =
              [IdleCheckout EXCEPT !.op = "checkout", !.plan = plan,
                                   !.pc = "gpi.limits"]]
  /\ UNCHANGED <<planVars, org, provider, deliveryVars, planReqVars, quotaVars>>

\* createCheckoutSession up to its first await: the free plan is refused,
\* any other plan enters getOrCreateStripePriceIds
BeginCheckout(w, plan) ==
  /\ cs[w].pc = "idle"
  /\ csOps < MaxCheckoutOps
  /\ csOps' = csOps + 1
  /\ cs' = [cs EXCEPT ![w] =
              [IdleCheckout EXCEPT
                 !.op = "checkout", !.plan = plan,
                 !.pc = IF plan = "free" THEN "done" ELSE "gpi.limits",
                 !.err = IF plan = "free" THEN "BAD_REQUEST" ELSE "none"]]
  /\ UNCHANGED <<planVars, org, provider, deliveryVars, planReqVars, quotaVars>>

\* getOrCreateStripePriceIds(plan), plan not free
getOrCreateStripePriceIds(w) ==
  LET r == cs[w] IN
  /\ r.pc \in {"gpi.limits", "gpi.baseProduct", "gpi.basePrice",
               "gpi.seatProduct", "gpi.seatPrice", "gpi.persist",
               "gpi.invalidate"}
  /\ CASE r.pc = "gpi.limits" ->
            \* subscriptionTypeService.getPlanLimits(plan)
            /\ CacheAfterRead
            /\ IF ~getPlanLimits(r.plan).found
               THEN cs' = [cs EXCEPT ![w].pc = "done", ![w].err = "NOT_FOUND"]
               ELSE LET l == getPlanLimits(r.plan).limits IN
                    cs' = [cs EXCEPT
                             ![w].base = l.stripePriceIdBase,
                             ![w].seat = l.stripePriceIdSeat,
                             ![w].pc = AfterPrice(l.stripePriceIdBase,
                                                  l.stripePriceIdSeat, FALSE)]
            /\ UNCHANGED <<provider, history, committed, prevStamp>>
       [] r.pc \in {"gpi.baseProduct", "gpi.seatProduct"} ->
            \* stripeClient.products.create
            /\ \/ /\ provider' = [provider EXCEPT !.products = @ + 1]
                  /\ cs' = [cs EXCEPT ![w].pc = IF r.pc = "gpi.baseProduct"
                                                THEN "gpi.basePrice"
                                                ELSE "gpi.seatPrice"]
               \/ ProviderRejects(w)
            /\ UNCHANGED <<planVars, history, committed, prevStamp>>
       [] r.pc = "gpi.basePrice" ->
            \* stripeClient.prices.create for the base price
            /\ \/ /\ provider' = [provider EXCEPT
                                    !.prices[r.plan].base = @ + 1,
                                    !.lastPrice = @ + 1]
                  /\ cs' = [cs EXCEPT
                              ![w].base = provider.lastPrice + 1,
                              ![w].needsUpdate = TRUE,
                              ![w].pc = AfterPrice(provider.lastPrice + 1,
                                                   r.seat, TRUE)]
               \/ ProviderRejects(w)
            /\ UNCHANGED <<planVars, history, committed, prevStamp>>
       [] r.pc = "gpi.seatPrice" ->
            \* stripeClient.prices.create for the seat price
            /\ \/ /\ provider' = [provider EXCEPT
                                    !.prices[r.plan].seat = @ + 1,
                                    !.lastPrice = @ + 1]
                  /\ cs' = [cs EXCEPT
                              ![w].seat = provider.lastPrice + 1,
                              ![w].needsUpdate = TRUE,
                              ![w].pc = "gpi.persist"]
               \/ ProviderRejects(w)
            /\ UNCHANGED <<planVars, history, committed, prevStamp>>
       [] r.pc = "gpi.persist" ->
            \* subscriptionTypeService.update: findOneAndUpdate({plan}, {$set})
            /\ IF catalog[r.plan].exists
               THEN /\ catalog' = [catalog EXCEPT
                                     ![r.plan].stripePriceIdBase = r.base,
                                     ![r.plan].stripePriceIdSeat = r.seat]
                    /\ history' = Append(history, catalog')
                    /\ cs' = [cs EXCEPT ![w].pc = "gpi.invalidate",
                                ![w].wrote = Len(history) + 1]
               ELSE /\ cs' = [cs EXCEPT ![w].pc = "done", ![w].err = "NOT_FOUND"]
                    /\ UNCHANGED <<catalog, history>>
            /\ UNCHANGED <<planLimitsCache, cacheTimestamp, now, provider,
                           committed, prevStamp>>
       [] OTHER ->
            \* the continuation of update: invalidateCache, return
            /\ planLimitsCache' = NullCache
            /\ cacheTimestamp' = 0
            /\ prevStamp' = cacheTimestamp
            /\ committed' = IF r.wrote > committed THEN r.wrote ELSE committed
            /\ cs' = [cs EXCEPT ![w].pc = "co.find"]
            /\ UNCHANGED <<catalog, now, provider, history>>
  /\ UNCHANGED <<org, csOps, deliveryVars, pq, planOps, quotaVars>>

\* the id the provider gives to the customer object it creates next: every
\* customers.create call returns a new id
NewCustomerId == IF provider.customers = 0 THEN "cus_1" ELSE "cus_3"

\* createCheckoutSession whose customer write also stores the requested plan
createCheckoutSessionWritesPlan(w) ==
  LET r == cs[w] IN
  /\ r.op = "checkout"
  /\ r.pc \in {"co.find", "co.customer", "co.saveCustomer", "co.session"}
  /\ CASE r.pc = "co.find" ->
            \* Organization.findById and the test on stripeCustomerId
            /\ cs' = [cs EXCEPT
                        ![w].customer = org["o1"].stripeCustomerId,
                        ![w].pc = IF org["o1"].stripeCustomerId = "null"
                                  THEN "co.customer" ELSE "co.session"]
            /\ UNCHANGED <<org, provider>>
       [] r.pc = "co.customer" ->
            \* createStripeCustomer: stripeClient.customers.create
            /\ \/ /\ provider' = [provider EXCEPT !.customers = @ + 1]
                  /\ cs' = [cs EXCEPT ![w].pc = "co.saveCustomer",
                              ![w].customer = NewCustomerId]
               \/ ProviderRejects(w)
            /\ UNCHANGED org
       [] r.pc = "co.saveCustomer" ->
            \* organizationService.updateSubscription({stripeCustomerId})
            /\ org' = [org EXCEPT !["o1"].stripeCustomerId = r.customer,
                                  !["o1"].plan = r.plan]
            /\ cs' = [cs EXCEPT ![w].pc = "co.session"]
            /\ UNCHANGED provider
       [] OTHER ->
            \* stripeClient.checkout.sessions.create
            /\ \/ /\ provider' = [provider EXCEPT !.sessions = @ + 1]
                  /\ cs' = [cs EXCEPT ![w].pc = "done"]
               \/ ProviderRejects(w)
            /\ UNCHANGED org
  /\ UNCHANGED <<planVars, csOps, deliveryVars, planReqVars, quotaVars>>

\* createCheckoutSession after the prices are resolved
createCheckoutSession(w) ==
  LET r == cs[w] IN
  /\ r.op = "checkout"
  /\ r.pc \in {"co.find", "co.customer", "co.saveCustomer", "co.session"}
  /\ CASE r.pc = "co.find" ->
            \* Organization.findById and the test on stripeCustomerId
            /\ cs' = [cs EXCEPT
                        ![w].customer = org["o1"].stripeCustomerId,
                        ![w].pc = IF org["o1"].stripeCustomerId = "null"
                                  THEN "co.customer" ELSE "co.session"]
            /\ UNCHANGED <<org, provider>>
       [] r.pc = "co.customer" ->
            \* createStripeCustomer: stripeClient.customers.create
            /\ \/ /\ provider' = [provider EXCEPT !.customers = @ + 1]
                  /\ cs' = [cs EXCEPT ![w].pc = "co.saveCustomer",
                              ![w].customer = NewCustomerId]
               \/ ProviderRejects(w)
            /\ UNCHANGED org
       [] r.pc = "co.saveCustomer" ->
            \* organizationService.updateSubscription({stripeCustomerId})
            /\ org' = [org EXCEPT !["o1"].stripeCustomerId = r.customer]
            /\ cs' = [cs EXCEPT ![w].pc = "co.session"]
            /\ UNCHANGED provider
       [] OTHER ->
            \* stripeClient.checkout.sessions.create
            /\ \/ /\ provider' = [provider EXCEPT !.sessions = @ + 1]
                  /\ cs' = [cs EXCEPT ![w].pc = "done"]
               \/ ProviderRejects(w)
            /\ UNCHANGED org
  /\ UNCHANGED <<planVars, csOps, deliveryVars, planReqVars, quotaVars>>

\* createPortalSession up to its first await
BeginPortal(w) ==
  /\ cs[w].pc = "idle"
  /\ csOps < MaxCheckoutOps
  /\ csOps' = csOps + 1
  /\ cs' = [cs EXCEPT ![w] = [IdleCheckout EXCEPT !.op = "portal",
                                                   !.pc = "po.find"]]
  /\ UNCHANGED <<planVars, org, provider, deliveryVars, planReqVars, quotaVars>>

\* createPortalSession
createPortalSession(w) ==
  LET r == cs[w] IN
  /\ r.pc \in {"po.find", "po.session"}
  /\ CASE r.pc = "po.find" ->
            \* Organization.findById and the test on stripeCustomerId
            /\ cs' = [cs EXCEPT
                        ![w].customer = org["o1"].stripeCustomerId,
                        ![w].pc = IF org["o1"].stripeCustomerId = "null"
                                  THEN "done" ELSE "po.session",
                        ![w].err = IF org["o1"].stripeCustomerId = "null"
                                   THEN "BAD_REQUEST" ELSE "none"]
            /\ UNCHANGED provider
       [] OTHER ->
            \* stripeClient.billingPortal.sessions.create
            \/ /\ provider' = [provider EXCEPT !.portals = @ + 1]
               /\ cs' = [cs EXCEPT ![w].pc = "done"]
            \/ ProviderRejects(w)
  /\ UNCHANGED <<planVars, org, csOps, deliveryVars, planReqVars, quotaVars>>

\* the response has been sent
FinishCheckout(w) ==
  /\ cs[w].pc = "done"
  /\ cs' = [cs EXCEPT ![w] = IdleCheckout]
  /\ UNCHANGED <<planVars, org, provider, csOps, deliveryVars, planReqVars,
                 quotaVars>>

CheckoutStep(w) ==
  \/ getOrCreateStripePriceIds(w)
  \/ createCheckoutSession(w)
  \/ createPortalSession(w)
  \/ FinishCheckout(w)

\* organization o1 before its first checkout, with or without a customer
\* reference
CheckoutOrgs == {FreshOrgs, [FreshOrgs EXCEPT !["o1"].stripeCustomerId = "null"]}

(***************************************************************************)
(* Provider events                                                         *)
(***************************************************************************)
EventIds == {"evt_checkout", "evt_paid", "evt_failed", "evt_sub", "evt_deleted",
             "evt_other", "evt_stray"}

\* an earlier customer.subscription.updated event of sub_1, created before
\* evt_sub, that the provider may deliver after it
LateEventIds == {"evt_sub_old"}

BlankEvent ==
  [type |-> "unknown", org |-> "none", plan |-> "none", seatCount |-> 1,
   session |-> "none", subscription |-> "none", customer |-> "none",
   invoice |-> "none", subStatus |-> "none", periodEnd |-> 0,
   cancelAtPeriodEnd |-> FALSE]

Event ==
  [e \in EventIds \cup LateEventIds |->
     CASE e = "evt_checkout" ->
            [BlankEvent EXCEPT !.type = "checkout.session.completed",
               !.org = "o1", !.plan = "starter", !.seatCount = 3,
               !.session = "cs_1", !.subscription = "sub_1", !.customer = "cus_1"]
       [] e = "evt_paid" ->
            [BlankEvent EXCEPT !.type = "invoice.paid", !.customer = "cus_1",
               !.invoice = "in_1"]
       [] e = "evt_failed" ->
            [BlankEvent EXCEPT !.type = "invoice.payment_failed",
               !.customer = "cus_1", !.invoice = "in_2"]
       [] e = "evt_sub" ->
            [BlankEvent EXCEPT !.type = "customer.subscription.updated",
               !.org = "o1", !.subscription = "sub_1", !.subStatus = "active",
               !.periodEnd = 2, !.cancelAtPeriodEnd = FALSE]
       [] e = "evt_sub_old" ->
            [BlankEvent EXCEPT !.type = "customer.subscription.updated",
               !.org = "o1", !.subscription = "sub_1", !.subStatus = "active",
               !.periodEnd = 1, !.cancelAtPeriodEnd = TRUE]
       [] e = "evt_deleted" ->
            [BlankEvent EXCEPT !.type = "customer.subscription.deleted",
               !.org = "o1", !.subscription = "sub_1"]
       [] e = "evt_stray" ->
            [BlankEvent EXCEPT !.type = "invoice.paid", !.customer = "cus_9",
               !.invoice = "in_9"]
       [] OTHER ->
            [BlankEvent EXCEPT !.type = "charge.refunded"]]

HandledTypes == {"checkout.session.completed", "customer.subscription.created",
                 "customer.subscription.updated", "customer.subscription.deleted",
                 "invoice.paid", "invoice.payment_failed"}

\* stripeEventId values: event ids, and the checkout session ids that
\* handleCheckoutCompleted stores in the same unique field
RowKeys == EventIds \cup LateEventIds \cup {"cs_1"}

NoRow == [exists |-> FALSE, processed |-> FALSE, error |-> "none",
          eventType |-> "none"]

AuditKinds == {<<"o1", "payment_succeeded", "in_1">>,
               <<"o1", "payment_failed", "in_2">>,
               <<"o1", "subscription_cancelled", "sub_1">>}

IdleDelivery == [pc |-> "idle", ev |-> "evt_other", step |-> 0, seen |-> "none",
                 seenStatus |-> "none", err |-> "none", faulted |-> FALSE,
                 signature |-> "valid"]

\* findOneAndUpdate({stripeEventId}, {$set: ...}, {upsert: true}): schema
\* defaults (processed: false) apply to an inserted document only
Upsert(key, field, value) ==
  rows' = [rows EXCEPT ![key] =
             [(IF rows[key].exists THEN rows[key]
               ELSE [NoRow EXCEPT !.exists = TRUE]) EXCEPT ![field] = value]]

(***************************************************************************)
(* Webhook Reconciler: billingService.handleWebhookEvent                   *)
(***************************************************************************)
Set(d, pcv, stepv) == del' = [del EXCEPT ![d].pc = pcv, ![d].step = stepv]

\* an exception inside the try block: control moves to the catch branch
Throw(d, msg) == del' = [del EXCEPT ![d].pc = "catch", ![d].err = msg]

\* the handler returned: control reaches the mark-processed upsert
HandlerDone(d) ==
  /\ del' = [del EXCEPT ![d].pc = "mark", ![d].step = 0]
  /\ applied' = [applied EXCEPT ![del[d].ev] = @ + 1]

\* the provider delivers event e and a worker starts handleWebhookEvent
Start(d, e) ==
  /\ del[d].pc = "idle"
  /\ attempts["evt_checkout"] + attempts["evt_paid"] + attempts["evt_failed"]
       + attempts["evt_sub"] + attempts["evt_deleted"] + attempts["evt_other"]
       + attempts["evt_stray"] + attempts["evt_sub_old"] < MaxDeliveries
  /\ del' = [del EXCEPT ![d] = [IdleDelivery EXCEPT !.pc = "lookup", !.ev = e]]
  /\ attempts' = [attempts EXCEPT ![e] = @ + 1]
  /\ UNCHANGED <<planVars, org, rows, audit, handlerCalls, applied, faultsLeft>>
  /\ UNCHANGED apiVars

\* deliveries of the provider that do not overlap in time
StartSeq(d, e) ==
  /\ \A o \in Workers : del[o].pc = "idle"
  /\ Start(d, e)

\* what the stripe-signature header of a request can be: absent, present but
\* not a signature of the body under the endpoint secret, or genuine
Signatures == {"missing", "forged", "valid"}

\* the route with the signature test and constructWebhookEvent left out
webhookRouteUnverified(d, e, sig) ==
  /\ \A o \in Workers : del[o].pc = "idle"
  /\ attempts["evt_checkout"] + attempts["evt_paid"] + attempts["evt_failed"]
       + attempts["evt_sub"] + attempts["evt_deleted"] + attempts["evt_other"]
       + attempts["evt_stray"] + attempts["evt_sub_old"] < MaxDeliveries
  /\ del' = [del EXCEPT ![d] = [IdleDelivery EXCEPT !.pc = "lookup", !.ev = e,
                                                    !.signature = sig]]
  /\ attempts' = [attempts EXCEPT ![e] = @ + 1]
  /\ UNCHANGED <<planVars, org, rows, audit, handlerCalls, applied, faultsLeft>>
  /\ UNCHANGED apiVars

\* POST /billing/webhook up to the first await: the test on the
\* stripe-signature header, constructWebhookEvent (the provider library
\* throws when the signature does not match the raw body), and the call of
\* handleWebhookEvent; a throw goes to next(err)
webhookRoute(d, e, sig) ==
  /\ \A o \in Workers : del[o].pc = "idle"
  /\ attempts["evt_checkout"] + attempts["evt_paid"] + attempts["evt_failed"]
       + attempts["evt_sub"] + attempts["evt_deleted"] + attempts["evt_other"]
       + attempts["evt_stray"] + attempts["evt_sub_old"] < MaxDeliveries
  /\ del' = [del EXCEPT ![d] =
       [IdleDelivery EXCEPT
          !.pc = IF sig = "valid" THEN "lookup" ELSE "rejected",
          !.ev = e, !.signature = sig,
          !.err = IF sig = "missing" THEN "Missing Stripe signature"
                  ELSE IF sig = "forged" THEN "signature verification failed"
                  ELSE "none"]]
  /\ attempts' = [attempts EXCEPT ![e] = @ + 1]
  /\ UNCHANGED <<planVars, org, rows, audit, handlerCalls, applied, faultsLeft>>
  /\ UNCHANGED apiVars

\* the status code of the response to a finished request: res.json sends
\* 200, errorResponder sends the status of an AppError and 500 otherwise
responseStatus(d) ==
  IF del[d].pc \in {"returned", "replayed"} THEN 200
  ELSE IF del[d].err \in {"Missing Stripe signature",
                          "Missing organizationId in subscription metadata"}
  THEN 400
  ELSE IF del[d].err \in {"Organization not found",
                          "Organization not found for Stripe customer"}
  THEN 404
  ELSE 500

\* FindExisting with the idempotency test left out
FindExistingNoTest(d) ==
  LET e == del[d].ev IN
  /\ del[d].pc = "lookup"
  /\ IF Event[e].type \in HandledTypes
     THEN /\ Set(d, "handler", 1)
          /\ handlerCalls' = [handlerCalls EXCEPT ![e] = @ + 1]
     ELSE /\ Set(d, "mark", 0)
          /\ UNCHANGED handlerCalls
  /\ UNCHANGED <<planVars, org, rows, audit, applied, attempts, faultsLeft>>
  /\ UNCHANGED apiVars

\* BillingEvent.findOne({stripeEventId}) and the idempotency test; the switch
\* on event.type runs in the same turn up to the handler's first await
FindExisting(d) ==
  LET e == del[d].ev IN
  /\ del[d].pc = "lookup"
  /\ IF rows[e].exists /\ rows[e].processed
     THEN /\ Set(d, "replayed", 0)
          /\ UNCHANGED handlerCalls
     ELSE IF Event[e].type \in HandledTypes
          THEN /\ Set(d, "handler", 1)
               /\ handlerCalls' = [handlerCalls EXCEPT ![e] = @ + 1]
          ELSE /\ Set(d, "mark", 0)
               /\ UNCHANGED handlerCalls
  /\ UNCHANGED <<planVars, org, rows, audit, applied, attempts, faultsLeft>>
  /\ UNCHANGED apiVars

\* handleCheckoutCompleted
handleCheckoutCompleted(d) ==
  LET ev == Event[del[d].ev]
      o == ev.org
  IN
  /\ del[d].pc = "handler"
  /\ ev.type = "checkout.session.completed"
  /\ CASE del[d].step = 1 ->
            \* missing metadata: logged, returns; else updateSubscription
            IF o = "none" \/ ev.plan = "none"
            THEN /\ HandlerDone(d)
                 /\ UNCHANGED <<planVars, org, rows>>
            ELSE /\ org' = IF o \in Orgs
                           THEN [org EXCEPT ![o].plan = ev.plan,
                                   ![o].stripeSubscriptionId = ev.subscription]
                           ELSE org
                 /\ Set(d, "handler", 2)
                 /\ UNCHANGED <<planVars, rows, applied>>
       [] del[d].step = 2 ->
            \* updateSeatCount: findById, then validateSeatCount
            /\ IF o \notin Orgs
               THEN Throw(d, "Organization not found") /\ UNCHANGED planVars
               ELSE /\ CacheAfterRead
                    /\ IF validateSeatCount(org[o].plan, ev.seatCount) = "ok"
                       THEN Set(d, "handler", 3)
                       ELSE Throw(d, validateSeatCount(org[o].plan, ev.seatCount))
            /\ UNCHANGED <<org, rows, applied>>
       [] del[d].step = 3 ->
            \* updateSeatCount: updateOne $set subscription.seatCount
            /\ org' = [org EXCEPT ![o].seatCount = ev.seatCount]
            /\ Set(d, "handler", 4)
            /\ UNCHANGED <<planVars, rows, applied>>
       [] OTHER ->
            \* BillingEvent.create with stripeEventId: session.id (unique index)
            IF rows[ev.session].exists
            THEN /\ Throw(d, "E11000 duplicate key")
                 /\ UNCHANGED <<planVars, org, rows, applied>>
            ELSE /\ rows' = [rows EXCEPT ![ev.session] =
                               [NoRow EXCEPT !.exists = TRUE,
                                  !.eventType = "subscription_created"]]
                 /\ HandlerDone(d)
                 /\ UNCHANGED <<planVars, org>>
  /\ UNCHANGED <<audit, handlerCalls, attempts, faultsLeft>>
  /\ UNCHANGED apiVars

\* handleSubscriptionUpdated
handleSubscriptionUpdated(d) ==
  LET ev == Event[del[d].ev]
      o == ev.org
  IN
  /\ del[d].pc = "handler"
  /\ ev.type \in {"customer.subscription.created", "customer.subscription.updated"}
  /\ CASE del[d].step = 1 ->
            IF o = "none"
            THEN /\ Throw(d, "Missing organizationId in subscription metadata")
                 /\ UNCHANGED <<org, applied>>
            ELSE \* updateSubscription; a zero timestamp is falsy and skipped
                 /\ org' = IF o \in Orgs
                           THEN [org EXCEPT
                                   ![o].stripeSubscriptionId = ev.subscription,
                                   ![o].currentPeriodEnd =
                                      IF ev.periodEnd # 0 THEN ev.periodEnd ELSE @,
                                   ![o].cancelAtPeriodEnd = ev.cancelAtPeriodEnd]
                           ELSE org
                 /\ IF ev.subStatus = "active"
                    THEN Set(d, "handler", 2) /\ UNCHANGED applied
                    ELSE HandlerDone(d)
       [] OTHER ->
            \* organizationService.reactivate
            /\ org' = IF o \in Orgs THEN [org EXCEPT ![o].status = "active"] ELSE org
            /\ HandlerDone(d)
  /\ UNCHANGED <<planVars, rows, audit, handlerCalls, attempts, faultsLeft>>
  /\ UNCHANGED apiVars

\* handleSubscriptionDeleted that also forgets the subscription reference
handleSubscriptionDeletedClearsReference(d) ==
  LET ev == Event[del[d].ev]
      o == ev.org
  IN
  /\ del[d].pc = "handler"
  /\ ev.type = "customer.subscription.deleted"
  /\ CASE del[d].step = 1 ->
            IF o = "none"
            THEN /\ Throw(d, "Missing organizationId in subscription metadata")
                 /\ UNCHANGED <<org, audit, applied>>
            ELSE /\ org' = IF o \in Orgs
                           THEN [org EXCEPT ![o].plan = "free",
                                   ![o].stripeSubscriptionId = "null"]
                           ELSE org
                 /\ Set(d, "handler", 2)
                 /\ UNCHANGED <<audit, applied>>
       [] OTHER ->
            /\ audit' = [audit EXCEPT
                           ![<<o, "subscription_cancelled", ev.subscription>>] = @ + 1]
            /\ HandlerDone(d)
            /\ UNCHANGED org
  /\ UNCHANGED <<planVars, rows, handlerCalls, attempts, faultsLeft>>
  /\ UNCHANGED apiVars

\* handleSubscriptionDeleted
handleSubscriptionDeleted(d) ==
  LET ev == Event[del[d].ev]
      o == ev.org
  IN
  /\ del[d].pc = "handler"
  /\ ev.type = "customer.subscription.deleted"
  /\ CASE del[d].step = 1 ->
            IF o = "none"
            THEN /\ Throw(d, "Missing organizationId in subscription metadata")
                 /\ UNCHANGED <<org, audit, applied>>
            ELSE /\ org' = IF o \in Orgs THEN [org EXCEPT ![o].plan = "free"] ELSE org
                 /\ Set(d, "handler", 2)
                 /\ UNCHANGED <<audit, applied>>
       [] OTHER ->
            /\ audit' = [audit EXCEPT
                           ![<<o, "subscription_cancelled", ev.subscription>>] = @ + 1]
            /\ HandlerDone(d)
            /\ UNCHANGED org
  /\ UNCHANGED <<planVars, rows, handlerCalls, attempts, faultsLeft>>
  /\ UNCHANGED apiVars

\* handleInvoicePaid
handleInvoicePaid(d) ==
  LET ev == Event[del[d].ev] IN
  /\ del[d].pc = "handler"
  /\ ev.type = "invoice.paid"
  /\ CASE del[d].step = 1 ->
            \* findByStripeCustomerId
            /\ IF findByStripeCustomerId(ev.customer) = {}
               THEN Throw(d, "Organization not found for Stripe customer")
               ELSE \E o \in findByStripeCustomerId(ev.customer) :
                      del' = [del EXCEPT ![d].step = 2, ![d].seen = o,
                                ![d].seenStatus = org[o].status]
            /\ UNCHANGED <<org, audit, applied>>
       [] del[d].step = 2 ->
            \* BillingEvent.create, then the test on the status read in step 1
            /\ audit' = [audit EXCEPT
                           ![<<del[d].seen, "payment_succeeded", ev.invoice>>] = @ + 1]
            /\ IF del[d].seenStatus = "suspended"
               THEN Set(d, "handler", 3) /\ UNCHANGED applied
               ELSE HandlerDone(d)
            /\ UNCHANGED org
       [] OTHER ->
            \* organizationService.reactivate
            /\ org' = [org EXCEPT ![del[d].seen].status = "active"]
            /\ HandlerDone(d)
            /\ UNCHANGED audit
  /\ UNCHANGED <<planVars, rows, handlerCalls, attempts, faultsLeft>>
  /\ UNCHANGED apiVars

\* handleInvoicePaymentFailed that leaves the organization's status alone
handleInvoicePaymentFailedNoSuspend(d) ==
  LET ev == Event[del[d].ev] IN
  /\ del[d].pc = "handler"
  /\ ev.type = "invoice.payment_failed"
  /\ CASE del[d].step = 1 ->
            /\ IF findByStripeCustomerId(ev.customer) = {}
               THEN Throw(d, "Organization not found for Stripe customer")
               ELSE \E o \in findByStripeCustomerId(ev.customer) :
                      del' = [del EXCEPT ![d].step = 2, ![d].seen = o,
                                ![d].seenStatus = org[o].status]
            /\ UNCHANGED <<org, audit, applied>>
       [] del[d].step = 2 ->
            /\ audit' = [audit EXCEPT
                           ![<<del[d].seen, "payment_failed", ev.invoice>>] = @ + 1]
            /\ Set(d, "handler", 3)
            /\ UNCHANGED <<org, applied>>
       [] OTHER ->
            /\ HandlerDone(d)
            /\ UNCHANGED <<org, audit>>
  /\ UNCHANGED <<planVars, rows, handlerCalls, attempts, faultsLeft>>
  /\ UNCHANGED apiVars

\* handleInvoicePaymentFailed
handleInvoicePaymentFailed(d) ==
  LET ev == Event[del[d].ev] IN
  /\ del[d].pc = "handler"
  /\ ev.type = "invoice.payment_failed"
  /\ CASE del[d].step = 1 ->
            /\ IF findByStripeCustomerId(ev.customer) = {}
               THEN Throw(d, "Organization not found for Stripe customer")
               ELSE \E o \in findByStripeCustomerId(ev.customer) :
                      del' = [del EXCEPT ![d].step = 2, ![d].seen = o,
                                ![d].seenStatus = org[o].status]
            /\ UNCHANGED <<org, audit, applied>>
       [] del[d].step = 2 ->
            /\ audit' = [audit EXCEPT
                           ![<<del[d].seen, "payment_failed", ev.invoice>>] = @ + 1]
            /\ Set(d, "handler", 3)
            /\ UNCHANGED <<org, applied>>
       [] OTHER ->
            \* organizationService.suspend
            /\ org' = [org EXCEPT ![del[d].seen].status = "suspended"]
            /\ HandlerDone(d)
            /\ UNCHANGED audit
  /\ UNCHANGED <<planVars, rows, handlerCalls, attempts, faultsLeft>>
  /\ UNCHANGED apiVars

\* MarkProcessed that stores the mark for events of a handled type only
MarkProcessedHandledOnly(d) ==
  /\ del[d].pc = "mark"
  /\ IF Event[del[d].ev].type \in HandledTypes
     THEN Upsert(del[d].ev, "processed", TRUE)
     ELSE UNCHANGED rows
  /\ Set(d, "returned", 0)
  /\ UNCHANGED <<planVars, org, audit, handlerCalls, applied, attempts, faultsLeft>>
  /\ UNCHANGED apiVars

\* the upsert that marks the event processed
MarkProcessed(d) ==
  /\ del[d].pc = "mark"
  /\ Upsert(del[d].ev, "processed", TRUE)
  /\ Set(d, "returned", 0)
  /\ UNCHANGED <<planVars, org, audit, handlerCalls, applied, attempts, faultsLeft>>
  /\ UNCHANGED apiVars

\* RecordError whose update is not an upsert: no document is inserted
RecordErrorNoInsert(d) ==
  /\ del[d].pc = "catch"
  /\ rows' = [rows EXCEPT ![del[d].ev] =
               IF @.exists THEN [@ EXCEPT !.error = del[d].err] ELSE @]
  /\ Set(d, "failed", 0)
  /\ UNCHANGED <<planVars, org, audit, handlerCalls, applied, attempts, faultsLeft>>
  /\ UNCHANGED apiVars

\* the catch branch: the upsert that records the error text, then throw err
RecordError(d) ==
  /\ del[d].pc = "catch"
  /\ Upsert(del[d].ev, "error", del[d].err)
  /\ Set(d, "failed", 0)
  /\ UNCHANGED <<planVars, org, audit, handlerCalls, applied, attempts, faultsLeft>>
  /\ UNCHANGED apiVars

\* the HTTP response has been sent; the worker is free again
Finish(d) ==
  /\ del[d].pc \in {"returned", "replayed", "failed", "rejected"}
  /\ del' = [del EXCEPT ![d] = IdleDelivery]
  /\ UNCHANGED <<planVars, org, rows, audit, handlerCalls, applied, attempts,
                 faultsLeft>>
  /\ UNCHANGED apiVars

\* a storage operation rejects (connection lost, timeout): inside the try
\* block the catch branch runs, elsewhere the error leaves handleWebhookEvent
Fault(d) ==
  /\ faultsLeft > 0
  /\ del[d].pc \in {"lookup", "handler", "mark", "catch"}
  /\ faultsLeft' = faultsLeft - 1
  /\ del' = [del EXCEPT
               ![d].pc = IF del[d].pc \in {"handler", "mark"} THEN "catch"
                         ELSE "failed",
               ![d].err = "storage unavailable", ![d].faulted = TRUE]
  /\ UNCHANGED <<planVars, org, rows, audit, handlerCalls, applied, attempts>>
  /\ UNCHANGED apiVars

Step(d) ==
  \/ FindExisting(d)
  \/ handleCheckoutCompleted(d)
  \/ handleSubscriptionUpdated(d)
  \/ handleSubscriptionDeleted(d)
  \/ handleInvoicePaid(d)
  \/ handleInvoicePaymentFailed(d)
  \/ MarkProcessed(d)
  \/ RecordError(d)
  \/ Finish(d)

(***************************************************************************)
(* Organization status: the status gate, the active-organization           *)
(* middleware and subscription cancellation, for organization o1           *)
(***************************************************************************)
\* a period end that is in the future as a behaviour begins and in the past
\* two clock steps later; 0 stands for no period end, 2 for one long past
PeriodEnds == {0, 2, CACHE_TTL_MS + TickMs}

\* organization o1 subscribed to starter, active or suspended
StatusOrgs ==
  {[FreshOrgs EXCEPT !["o1"].plan = "starter", !["o1"].status = st,
                     !["o1"].stripeSubscriptionId = "sub_1",
                     !["o1"].currentPeriodEnd = pe] :
     st \in {"active", "suspended"}, pe \in PeriodEnds}

\* no request and no delivery is in progress
Quiet == QuotaIdle /\ \A d \in Workers : del[d].pc = "idle"

\* the owner of o1 calls a status or cancellation route
BeginOwnerRequest(w, op, immediately) ==
  /\ qr[w].pc = "idle"
  /\ quotaOps < MaxQuotaOps
  /\ quotaOps' = quotaOps + 1
  /\ qr' = [qr EXCEPT ![w] =
              [IdleQuotaRequest EXCEPT
                 !.op = op, !.immediately = immediately,
                 !.pc = CASE op = "gate" -> "gate.profile"
                          [] op = "cancel" -> "can.find"
                          [] OTHER -> "req.find"]]
  /\ overlap' = (overlap \/ \E v \in Workers \ {w} : qr[v].pc # "idle")
  /\ UNCHANGED <<planVars, org, users, start, netDelta, seatDelta, materials,
                 planReqVars, hookVars>>

\* isActiveOrganization that reports the expiry without storing it
isActiveOrganizationNoWrite(w) ==
  /\ qr[w].pc \in {"gate.profile", "gate.find", "gate.write"}
  /\ CASE qr[w].pc = "gate.profile" ->
            Goto(w, "gate.find") /\ UNCHANGED org
       [] qr[w].pc = "gate.find" ->
            /\ IF org["o1"].status # "active"
               THEN qr' = [qr EXCEPT ![w].pc = "done",
                             ![w].status = org["o1"].status]
               ELSE IF org["o1"].currentPeriodEnd # 0
                       /\ org["o1"].currentPeriodEnd < now
                    THEN qr' = [qr EXCEPT ![w].pc = "done",
                                  ![w].status = "suspended"]
                    ELSE qr' = [qr EXCEPT ![w].pc = "done", ![w].can = TRUE,
                                  ![w].status = "active"]
            /\ UNCHANGED org
       [] OTHER ->
            /\ org' = [org EXCEPT !["o1"].status = "suspended"]
            /\ qr' = [qr EXCEPT ![w].pc = "done", ![w].status = "suspended"]
  /\ UNCHANGED <<planVars, users, quotaOps, start, netDelta, seatDelta, overlap,
                 materials, planReqVars, hookVars>>

\* authService.isActiveOrganization; status is response.status, can is
\* response.isActive
isActiveOrganization(w) ==
  /\ qr[w].pc \in {"gate.profile", "gate.find", "gate.write"}
  /\ CASE qr[w].pc = "gate.profile" ->
            \* userService.getProfile: the caller is the owner
            Goto(w, "gate.find") /\ UNCHANGED org
       [] qr[w].pc = "gate.find" ->
            \* Organization.findById(...).select("status subscription").lean(),
            \* then the tests on the record read
            /\ IF org["o1"].status # "active"
               THEN qr' = [qr EXCEPT ![w].pc = "done",
                             ![w].status = org["o1"].status]
               ELSE IF org["o1"].currentPeriodEnd # 0
                       /\ org["o1"].currentPeriodEnd < now
                    THEN qr' = [qr EXCEPT ![w].pc = "gate.write",
                                  ![w].status = "active"]
                    ELSE qr' = [qr EXCEPT ![w].pc = "done", ![w].can = TRUE,
                                  ![w].status = "active"]
            /\ UNCHANGED org
       [] OTHER ->
            \* Organization.updateOne({_id}, {status: "suspended"})
            /\ org' = [org EXCEPT !["o1"].status = "suspended"]
            /\ qr' = [qr EXCEPT ![w].pc = "done", ![w].status = "suspended"]
  /\ UNCHANGED <<planVars, users, quotaOps, start, netDelta, seatDelta, overlap,
                 materials, planReqVars, hookVars>>

\* the routes of the user and material routers that raise a counter
GuardedOps == {"invite", "reactivate", "createType"}

\* a request to one of those routes arrives: authenticate, then
\* requireActiveOrganization up to its first await
BeginGuardedRoute(w, op, u) ==
  /\ qr[w].pc = "idle"
  /\ quotaOps < MaxQuotaOps
  /\ quotaOps' = quotaOps + 1
  /\ qr' = [qr EXCEPT ![w] =
              [IdleQuotaRequest EXCEPT
                 !.op = op, !.user = u,
                 !.delta = IF op = "createType" THEN 1 ELSE 0,
                 !.pc = "req.find"]]
  /\ overlap' = (overlap \/ \E v \in Workers \ {w} : qr[v].pc # "idle")
  /\ UNCHANGED <<planVars, org, users, start, netDelta, seatDelta, materials,
                 planReqVars, hookVars>>

\* where next() leads: the route handler's first call into a service
RouteEntry(op) ==
  CASE op = "createType" -> "inc.find"
    [] op \in {"invite", "reactivate"} -> "cas.find"
    [] OTHER -> "done"

\* requireActiveOrganization that turns away suspended organizations only
requireActiveOrganizationSuspendedOnly(w) ==
  /\ qr[w].pc = "req.find"
  /\ CASE org["o1"].status = "suspended" ->
            qr' = [qr EXCEPT ![w].pc = "done", ![w].err = "ORGANIZATION_SUSPENDED",
                     ![w].status = "suspended"]
       [] OTHER ->
            qr' = [qr EXCEPT ![w].pc = RouteEntry(qr[w].op), ![w].can = TRUE,
                     ![w].status = org["o1"].status]
  /\ UNCHANGED <<planVars, org, users, quotaOps, start, netDelta, seatDelta,
                 overlap, materials, planReqVars, hookVars>>

\* requireActiveOrganization: next(), or the error passed to next
requireActiveOrganization(w) ==
  /\ qr[w].pc = "req.find"
  /\ CASE org["o1"].status = "suspended" ->
            qr' = [qr EXCEPT ![w].pc = "done", ![w].err = "ORGANIZATION_SUSPENDED",
                     ![w].status = "suspended"]
       [] org["o1"].status = "cancelled" ->
            qr' = [qr EXCEPT ![w].pc = "done", ![w].err = "ORGANIZATION_CANCELLED",
                     ![w].status = "cancelled"]
       [] OTHER ->
            qr' = [qr EXCEPT ![w].pc = RouteEntry(qr[w].op), ![w].can = TRUE,
                     ![w].status = org["o1"].status]
  /\ UNCHANGED <<planVars, org, users, quotaOps, start, netDelta, seatDelta,
                 overlap, materials, planReqVars, hookVars>>

\* billingService.cancelSubscription(organizationId, cancelImmediately)
cancelSubscription(w) ==
  /\ qr[w].pc \in {"can.find", "can.provider", "can.flag", "can.cancel"}
  /\ CASE qr[w].pc = "can.find" ->
            \* Organization.findById
            /\ IF org["o1"].stripeSubscriptionId = "null"
               THEN Fail(w, "BAD_REQUEST", "none")
               ELSE Goto(w, "can.provider")
            /\ UNCHANGED org
       [] qr[w].pc = "can.provider" ->
            \* subscriptions.cancel or subscriptions.update at the provider
            /\ Goto(w, "can.flag") \/ Fail(w, "PROVIDER_ERROR", "none")
            /\ UNCHANGED org
       [] qr[w].pc = "can.flag" ->
            \* updateSubscription({cancelAtPeriodEnd: !cancelImmediately})
            /\ org' = [org EXCEPT !["o1"].cancelAtPeriodEnd = ~qr[w].immediately]
            /\ Goto(w, IF qr[w].immediately THEN "can.cancel" ELSE "done")
       [] OTHER ->
            \* organizationService.cancel
            /\ org' = [org EXCEPT !["o1"].status = "cancelled",
                                  !["o1"].cancelAtPeriodEnd = TRUE]
            /\ Goto(w, "done")
  /\ UNCHANGED <<planVars, users, quotaOps, start, netDelta, seatDelta, overlap,
                 materials, planReqVars, hookVars>>

BeginOwner(w) ==
  \/ BeginOwnerRequest(w, "gate", FALSE)
  \/ BeginOwnerRequest(w, "requireActive", FALSE)
  \/ \E b \in BOOLEAN : BeginOwnerRequest(w, "cancel", b)

OwnerStep(w) ==
  \/ isActiveOrganization(w)
  \/ requireActiveOrganization(w)
  \/ cancelSubscription(w)
  \/ FinishQuotaRequest(w)

\* the provider events that bear on the status of a subscribed organization
StatusEvents == {"evt_paid", "evt_failed", "evt_sub"}

StatusDelivery(d) ==
  \/ FindExisting(d)
  \/ handleSubscriptionUpdated(d)
  \/ handleInvoicePaid(d)
  \/ handleInvoicePaymentFailed(d)
  \/ MarkProcessed(d)
  \/ Finish(d)

InitState(faults) ==
  /\ catalog = SeedCatalog
  /\ planLimitsCache = NullCache
  /\ cacheTimestamp = 0
  /\ now = CACHE_TTL_MS
  /\ rows = [k \in RowKeys |-> NoRow]
  /\ audit = [a \in AuditKinds |-> 0]
  /\ del = [d \in Workers |-> IdleDelivery]
  /\ handlerCalls = [e \in EventIds \cup LateEventIds |-> 0]
  /\ applied = [e \in EventIds \cup LateEventIds |-> 0]
  /\ attempts = [e \in EventIds \cup LateEventIds |-> 0]
  /\ faultsLeft = faults
  /\ pq = [w \in Workers |-> IdlePlanRequest]
  /\ planOps = 0
  /\ history = <<SeedCatalog>>
  /\ committed = 1
  /\ prevStamp = 0
  /\ users = StartUsers
  /\ qr = [w \in Workers |-> IdleQuotaRequest]
  /\ quotaOps = 0
  /\ netDelta = 0
  /\ seatDelta = 0
  /\ overlap = FALSE
  /\ materials = StartMaterials
  /\ provider = NoProviderObjects
  /\ cs = [w \in Workers |-> IdleCheckout]
  /\ csOps = 0
  /\ start = [org |-> org["o1"], users |-> users]

\* two newly registered organizations on the free plan

\* deliveries one after the other, storage reliable
Init == org = FreshOrgs /\ InitState(0)
Next == \E d \in Workers : (\E e \in EventIds : StartSeq(d, e)) \/ Step(d)
Spec == Init /\ [][Next]_vars

\* deliveries one after the other, with transient storage faults
InitFaults == org = FreshOrgs /\ InitState(MaxFaults)
NextFaults ==
  \E d \in Workers : (\E e \in EventIds : StartSeq(d, e)) \/ Step(d) \/ Fault(d)
SpecFaults == InitFaults /\ [][NextFaults]_vars

\* deliveries that overlap in time, storage reliable
NextConcurrent == \E d \in Workers : (\E e \in EventIds : Start(d, e)) \/ Step(d)
SpecConcurrent == Init /\ [][NextConcurrent]_vars

\* plan requests that overlap in time
NextCache == Tick \/ \E w \in Workers : BeginPlanRequest(w) \/ PlanStep(w)
SpecCache == Init /\ [][NextCache]_vars

\* plan requests one after the other
NextCacheSeq ==
  Tick \/ \E w \in Workers : (PlanIdle /\ BeginPlanRequest(w)) \/ PlanStep(w)
SpecCacheSeq == Init /\ [][NextCacheSeq]_vars

\* quota requests on an organization that has a plan and some usage
InitQuota == org \in QuotaOrgs /\ InitState(0)

\* quota requests that overlap in time
NextQuota == \E w \in Workers : BeginQuota(w) \/ QuotaStep(w)
SpecQuota == InitQuota /\ [][NextQuota]_vars

\* seat-changing requests that overlap in time
NextSeats == \E w \in Workers : BeginSeats(w) \/ SeatStep(w)
SpecSeats == InitQuota /\ [][NextSeats]_vars

\* single-item increments that may overlap in time
NextRace ==
  \E w \in Workers : \/ BeginQuotaRequest(w, "increment", 1, "u1")
                     \/ incrementCatalogItemCount(w)
                     \/ FinishQuotaRequest(w)
SpecRace == InitQuota /\ [][NextRace]_vars

\* material-type routes that overlap in time
NextMaterials ==
  \E w \in Workers :
    \/ BeginMaterialRequest(w, "createType", 0)
    \/ \E id \in 0 .. MaxQuotaOps : BeginMaterialRequest(w, "deleteType", id)
    \/ incrementCatalogItemCount(w)
    \/ createMaterialType(w)
    \/ deleteMaterialType(w)
    \/ decrementCatalogItemCount(w)
    \/ FinishQuotaRequest(w)
SpecMaterials == InitQuota /\ [][NextMaterials]_vars

\* the requests that raise a counter, one after the other
NextLimitsSeq ==
  \E w \in Workers :
    \/ /\ QuotaIdle
       /\ \/ \E u \in Users : BeginQuotaRequest(w, "invite", 0, u)
          \/ \E u \in Users : BeginQuotaRequest(w, "reactivate", 0, u)
          \/ \E n \in SeatInputs : BeginQuotaRequest(w, "updateSeats", n, "u1")
          \/ BeginMaterialRequest(w, "createType", 0)
    \/ canAddSeat(w)
    \/ inviteUser(w)
    \/ reactivate(w)
    \/ updateSeatQuantity(w)
    \/ updateSeatCount(w)
    \/ incrementCatalogItemCount(w)
    \/ createMaterialType(w)
    \/ decrementCatalogItemCount(w)
    \/ FinishQuotaRequest(w)
SpecLimitsSeq == InitQuota /\ [][NextLimitsSeq]_vars

\* status: owner requests, deliveries and the clock
InitStatus == org \in StatusOrgs /\ InitState(0)

\* ... overlapping in time: the gate and cancellation against each other
\* and against one delivery at a time
NextStatus ==
  \/ \E w \in Workers : \/ BeginOwnerRequest(w, "gate", FALSE)
                        \/ \E b \in BOOLEAN : BeginOwnerRequest(w, "cancel", b)
                        \/ isActiveOrganization(w)
                        \/ cancelSubscription(w)
                        \/ FinishQuotaRequest(w)
  \/ \E e \in {"evt_failed", "evt_sub"} : Start(1, e)
  \/ FindExisting(1)
  \/ handleSubscriptionUpdated(1)
  \/ handleInvoicePaymentFailed(1)
  \/ MarkProcessed(1)
  \/ Finish(1)
SpecStatus == InitStatus /\ [][NextStatus]_vars

\* ... one after the other
NextStatusSeq ==
  \/ Tick
  \/ \E w \in Workers : \/ Quiet /\ BeginOwner(w)
                        \/ OwnerStep(w)
                        \/ Quiet /\ \E e \in StatusEvents : Start(w, e)
                        \/ StatusDelivery(w)

SpecStatusSeq == InitStatus /\ [][NextStatusSeq]_vars

\* the invoice-paid event, for a known and for an unknown customer, delivered
\* while the owner's cancellation requests are in progress
NextPaid ==
  \/ \E w \in Workers : \/ \E b \in BOOLEAN : BeginOwnerRequest(w, "cancel", b)
                        \/ cancelSubscription(w)
                        \/ FinishQuotaRequest(w)
  \/ \E e \in {"evt_paid", "evt_stray"} : Start(1, e)
  \/ FindExisting(1)
  \/ handleInvoicePaid(1)
  \/ MarkProcessed(1)
  \/ RecordError(1)
  \/ Finish(1)
SpecPaid == InitStatus /\ [][NextPaid]_vars

\* quota requests one after the other
NextQuotaSeq == \E w \in Workers : (QuotaIdle /\ BeginQuota(w)) \/ QuotaStep(w)
SpecQuotaSeq == InitQuota /\ [][NextQuotaSeq]_vars

\* Plan Catalog mutations that overlap in time
NextCatalog ==
  \E w \in Workers :
    \/ \E data \in CreateInputs : BeginCreate(w, "team", data)
    \/ \E p \in PlanTargets, u \in UpdateInputs : BeginUpdate(w, p, u)
    \/ \E p \in PlanTargets : BeginDeactivate(w, p)
    \/ CreateSave(w)
    \/ Invalidate(w)
    \/ FinishPlanRequest(w)
SpecCatalog == Init /\ [][NextCatalog]_vars

\* the completed-checkout event delivered, one request at a time, to an
\* installation whose admin edits or retires the starter plan
NextCheckoutEvent ==
  \E w \in Workers :
    \/ /\ PlanIdle /\ Quiet
       /\ \/ BeginDeactivate(w, "starter")
          \/ \E u \in UpdateInputs : BeginUpdate(w, "starter", u)
          \/ Start(w, "evt_checkout")
    \/ Invalidate(w)
    \/ FinishPlanRequest(w)
    \/ FindExisting(w)
    \/ handleCheckoutCompleted(w)
    \/ MarkProcessed(w)
    \/ RecordError(w)
    \/ Finish(w)
SpecCheckoutEvent == Init /\ [][NextCheckoutEvent]_vars


\* the member-roster requests of an organization whose one counted seat is
\* its owner's, one after the other
InitRoster ==
  /\ org \in {q \in QuotaOrgs : q["o1"].seatCount = 1
                                 /\ q["o1"].catalogItemCount = 0}
  /\ InitState(0)
NextRoster ==
  \E w \in Workers :
    \/ /\ QuotaIdle
       /\ \/ BeginSeats(w)
          \/ \E u \in Users : BeginAcceptInvite(w, u)
    \/ SeatStep(w)
    \/ acceptInvite(w)
SpecRoster == InitRoster /\ [][NextRoster]_vars


\* the guarded routes, the owner's cancellation and the invoice events, one
\* request at a time
NextGuard ==
  \E w \in Workers :
    \/ /\ Quiet
       /\ \/ \E u \in Users : BeginGuardedRoute(w, "invite", u)
          \/ \E u \in Users : BeginGuardedRoute(w, "reactivate", u)
          \/ BeginGuardedRoute(w, "createType", "u1")
          \/ BeginOwnerRequest(w, "cancel", TRUE)
          \/ \E e \in {"evt_paid", "evt_failed"} : Start(w, e)
    \/ requireActiveOrganization(w)
    \/ canAddSeat(w)
    \/ inviteUser(w)
    \/ reactivate(w)
    \/ updateSeatCount(w)
    \/ incrementCatalogItemCount(w)
    \/ createMaterialType(w)
    \/ decrementCatalogItemCount(w)
    \/ cancelSubscription(w)
    \/ FinishQuotaRequest(w)
    \/ FindExisting(w)
    \/ handleInvoicePaid(w)
    \/ handleInvoicePaymentFailed(w)
    \/ MarkProcessed(w)
    \/ Finish(w)
SpecGuard == InitStatus /\ [][NextGuard]_vars


\* webhook requests one after the other, with any signature header
NextWebhook ==
  \E d \in Workers :
    \/ \E e \in EventIds, sig \in Signatures : webhookRoute(d, e, sig)
    \/ Step(d)
SpecWebhook == Init /\ [][NextWebhook]_vars

\* checkout and portal requests of o1's owner, overlapping, provider calls
\* may reject
InitCheckout == org \in CheckoutOrgs /\ InitState(0)
NextCheckout ==
  \E w \in Workers :
    \/ \E p \in CheckoutPlans : BeginCheckout(w, p)
    \/ BeginPortal(w)
    \/ CheckoutStep(w)
SpecCheckout == InitCheckout /\ [][NextCheckout]_vars

\* every request that reaches the Organization Subscription Record of o1:
\* deliveries, the status gate, cancellation, checkout and portal sessions,
\* seat changes and material-type routes, one after the other
InitWriters == org \in StatusOrgs \cup CheckoutOrgs /\ InitState(0)
RequestsStarted ==
  quotaOps + csOps + attempts["evt_checkout"] + attempts["evt_paid"]
    + attempts["evt_failed"] + attempts["evt_sub"] + attempts["evt_deleted"]
    + attempts["evt_other"] + attempts["evt_stray"] + attempts["evt_sub_old"]
NextWriters ==
  \E w \in Workers :
    \/ /\ Quiet /\ CheckoutIdle
       /\ RequestsStarted < MaxRequests
       /\ \/ \E e \in EventIds : Start(w, e)
          \/ BeginOwnerRequest(w, "gate", FALSE)
          \/ \E b \in BOOLEAN : BeginOwnerRequest(w, "cancel", b)
          \/ BeginSeats(w)
          \/ \E n \in SeatInputs : BeginQuotaRequest(w, "updateSeats", n, "u1")
          \/ BeginMaterialRequest(w, "createType", 0)
          \/ \E id \in 0 .. MaxQuotaOps : BeginMaterialRequest(w, "deleteType", id)
          \/ \E p \in CheckoutPlans : BeginCheckout(w, p)
          \/ BeginPortal(w)
    \/ Step(w)
    \/ isActiveOrganization(w)
    \/ cancelSubscription(w)
    \/ SeatStep(w)
    \/ updateSeatQuantity(w)
    \/ incrementCatalogItemCount(w)
    \/ createMaterialType(w)
    \/ deleteMaterialType(w)
    \/ decrementCatalogItemCount(w)
    \/ CheckoutStep(w)
SpecWriters == InitWriters /\ [][NextWriters]_vars

\* the two subscription-updated events of sub_1, delivered one after the
\* other in either order, each possibly more than once
SubscriptionEvents == {"evt_sub", "evt_sub_old"}
NextOrder ==
  \E d \in Workers :
    \/ \E e \in SubscriptionEvents : StartSeq(d, e)
    \/ FindExisting(d)
    \/ handleSubscriptionUpdated(d)
    \/ MarkProcessed(d)
    \/ Finish(d)
SpecOrder == InitStatus /\ [][NextOrder]_vars


(***************************************************************************)
(* Webhook Reconciler: properties                                          *)
(***************************************************************************)
Processed(e) == rows[e].exists /\ rows[e].processed

InFlight(e) == {d \in Workers : del[d].pc # "idle" /\ del[d].ev = e}

\* C1: sequential redelivery is idempotent. Once an event's row is marked
\* processed, no later step invokes or completes its handler again, the row
\* stays processed, the deliveries of that event change neither an
\* organization nor the audit log and end in success unless storage itself
\* fails; an event processed at its first attempt has had its handler
\* invoked and applied exactly once.
C1_SequentialRedeliveryIdempotent ==
  [][\A e \in EventIds :
       Processed(e) =>
         /\ handlerCalls'[e] = handlerCalls[e]
         /\ applied'[e] = applied[e]
         /\ rows'[e].exists /\ rows'[e].processed
         /\ \A d \in InFlight(e) :
              /\ org' = org /\ audit' = audit
              /\ del'[d].pc \in {"idle", "lookup", "returned", "replayed"}
                   \/ del'[d].faulted
         /\ (Event[e].type \in HandledTypes /\ rows[e].error = "none"
               /\ faultsLeft = MaxFaults)
              => handlerCalls[e] = 1 /\ applied[e] = 1]_vars

\* C1 witness: a second delivery of a processed event has returned success
\* at the idempotency test, the handler having run once
C1_Witness ==
  \E d \in Workers :
    /\ del[d].pc = "replayed"
    /\ Event[del[d].ev].type \in HandledTypes
    /\ attempts[del[d].ev] >= 2
    /\ handlerCalls[del[d].ev] = 1

\* C2: for two overlapping deliveries of one event the handler's organization
\* mutation and audit-row append are applied exactly once
C2_ConcurrentDuplicateIgnored ==
  /\ \A e \in EventIds : applied[e] <= 1
  /\ \A a \in AuditKinds : audit[a] <= 1

\* C3: when the handler throws, handleWebhookEvent leaves a row for the event
\* with the error text and processed = FALSE and re-raises; so a row exists
\* once a first delivery attempt has ended, and a later delivery of a failed
\* event invokes the handler again.
C3_FailureRecorded ==
  [][/\ \A d \in Workers :
          (del[d].pc = "catch" /\ del'[d].pc # "catch") =>
            /\ del'[d].pc = "failed"
            /\ rows'[del[d].ev].exists
            /\ rows'[del[d].ev].error = del[d].err
            /\ rows'[del[d].ev].error # "none"
            /\ ~rows'[del[d].ev].processed
     /\ \A e \in EventIds :
          (attempts[e] >= 1 /\ \A d \in InFlight(e) : del[d].pc \in
                                  {"returned", "replayed", "failed"})
            => rows[e].exists
     /\ \A d \in Workers :
          (del[d].pc = "lookup" /\ del'[d].pc # "lookup"
             /\ rows[del[d].ev].exists /\ rows[del[d].ev].error # "none"
             /\ ~rows[del[d].ev].processed)
            => handlerCalls'[del[d].ev] = handlerCalls[del[d].ev] + 1]_vars

\* C3 witness: a redelivery of a failed event has run the handler a second
\* time and failed again, its row carrying the error and processed = FALSE
C3_Witness ==
  \E d \in Workers :
    /\ del[d].pc = "failed"
    /\ handlerCalls[del[d].ev] = 2
    /\ rows[del[d].ev].exists
    /\ rows[del[d].ev].error = "Organization not found for Stripe customer"
    /\ ~rows[del[d].ev].processed

\* an event no delivery can process: its customer reference has no organization
Unprocessable(e) ==
  /\ Event[e].type \in {"invoice.paid", "invoice.payment_failed"}
  /\ findByStripeCustomerId(Event[e].customer) = {}

\* C4: retries eventually succeed. A delivery during which storage does not
\* fail ends in failure only for an event that no delivery can process: what
\* an earlier failed attempt of the same event left behind never makes it fail.
C4_RetrySucceeds ==
  \A d \in Workers :
    (del[d].pc = "failed" /\ ~del[d].faulted) => Unprocessable(del[d].ev)

(***************************************************************************)
(* Plan Limits Cache: properties                                           *)
(***************************************************************************)
\* C5: staleness is zero after an explicit mutation, under every
\* interleaving. A getPlanLimits call returns, for its plan, what some state
\* of the Plan Catalog no older than the latest mutation that had returned
\* when the call started says.
C5_NoStaleReadAfterMutation ==
  \A w \in Workers :
    (pq[w].pc = "done" /\ pq[w].op = "getPlanLimits") =>
      \E i \in pq[w].need .. Len(history) :
        Lookup(pq[w].map, pq[w].plan) = Lookup(BuildMap(history[i]), pq[w].plan)

\* C6: every successful create, update or deactivate drops the cached map,
\* and with requests that do not overlap every read through the cache
\* returns exactly the active plans of the Plan Catalog as they are now: a
\* deactivated plan is NotFound and absent from the list, a created or
\* updated active plan carries its new values.
C6_ReadAfterMutationIsCurrent ==
  [][\A w \in Workers :
       /\ (pq[w].pc = "invalidate" /\ pq'[w].pc = "done")
            => ~planLimitsCache'.built
       /\ (pq'[w].op = "getPlanLimits" /\ pq[w].pc # "done" /\ pq'[w].pc = "done")
            => /\ pq'[w].map = BuildMap(catalog)
               /\ pq'[w].res = Lookup(BuildMap(catalog), pq'[w].plan).status]_vars

\* C6 witness: a read of a deactivated plan, started inside the freshness
\* window of the map the deactivation dropped, has returned NotFound
C6_Witness ==
  \E w \in Workers :
    /\ pq[w].pc = "done" /\ pq[w].op = "getPlanLimits"
    /\ pq[w].res = "NOT_FOUND"
    /\ catalog[pq[w].plan].exists /\ catalog[pq[w].plan].status = "inactive"
    /\ prevStamp > 0 /\ pq[w].localNow - prevStamp < CACHE_TTL_MS
    /\ pq[w].plan \notin DOMAIN pq[w].map


\* the limit of the plan as the Plan Catalog holds it
CatalogLimit(plan, field) == catalog[plan][field]

\* C7: incrementCatalogItemCount(org, delta) on a plan with finite maximum N
\* fails with PLAN_LIMIT_REACHED / catalog_items exactly when the stored
\* counter plus delta exceeds N and then leaves the counter as it was;
\* otherwise, and whenever the maximum is -1, the counter grows by delta.
C7_IncrementRevalidates ==
  [][\A w \in Workers :
       (qr[w].op = "increment" /\ qr[w].pc # "done" /\ qr'[w].pc = "done") =>
         LET N == CatalogLimit(org["o1"].plan, "maxCatalogItems")
             current == start.org.catalogItemCount + netDelta
         IN
         /\ org["o1"].catalogItemCount = current
         /\ IF N # -1 /\ current + qr[w].delta > N
            THEN /\ qr'[w].err = "PLAN_LIMIT_REACHED"
                 /\ qr'[w].resource = "catalog_items"
                 /\ org'["o1"].catalogItemCount = current
            ELSE /\ qr'[w].err = "none"
                 /\ org'["o1"].catalogItemCount = current + qr[w].delta]_vars

\* an increment of 2 refused one below the limit, and the counter untouched
C7_Witness ==
  \E w \in Workers :
    /\ qr[w].pc = "done" /\ qr[w].op = "increment" /\ qr[w].delta = 2
    /\ qr[w].err = "PLAN_LIMIT_REACHED" /\ qr[w].resource = "catalog_items"
    /\ CatalogLimit(org["o1"].plan, "maxCatalogItems") # -1
    /\ org["o1"].catalogItemCount
         = CatalogLimit(org["o1"].plan, "maxCatalogItems") - 1

\* C8: for seats and for catalog items, canAdd answers TRUE exactly when the
\* plan's maximum is -1 or the stored counter plus one does not exceed it.
C8_CanAddMatchesLimit ==
  [][\A w \in Workers :
       (qr[w].op \in {"canAddSeat", "canAddCatalogItem"}
          /\ qr[w].pc # "done" /\ qr'[w].pc = "done") =>
         LET seats == qr[w].op = "canAddSeat"
             max == CatalogLimit(org["o1"].plan,
                                 IF seats THEN "maxSeats" ELSE "maxCatalogItems")
             current == IF seats THEN org["o1"].seatCount
                        ELSE org["o1"].catalogItemCount
         IN
         /\ qr'[w].err = "none"
         /\ qr'[w].can = (max = -1 \/ current + 1 <= max)]_vars

\* canAddSeat answered FALSE with the seat counter at a finite maximum
C8_Witness ==
  \E w \in Workers :
    /\ qr[w].pc = "done" /\ qr[w].op = "canAddSeat" /\ ~qr[w].can
    /\ qr[w].err = "none"
    /\ org["o1"].seatCount = CatalogLimit(org["o1"].plan, "maxSeats")

\* C9: on plan starter with five seats taken, every invite and every
\* reactivation ends with PLAN_LIMIT_REACHED naming the resource seats, the
\* seat counter stays at five and no user is created or activated.
C9_SeatLimitScenario ==
  (start.org.plan = "starter" /\ start.org.seatCount = 5) =>
    /\ org["o1"].seatCount = 5
    /\ users = start.users
    /\ \A w \in Workers :
         (qr[w].pc = "done" /\ qr[w].op \in {"invite", "reactivate"}) =>
           (qr[w].err = "PLAN_LIMIT_REACHED" /\ qr[w].resource = "seats")

\* the delta a catalog-counter call has written and not yet reported
Written(w) ==
  IF qr[w].pc # "done" \/ qr[w].err # "none" THEN 0
  ELSE IF qr[w].op = "increment" THEN qr[w].delta
  ELSE IF qr[w].op = "decrement" THEN 0 - qr[w].delta
  ELSE 0

\* C10: under every interleaving of increment and decrement calls the
\* catalog counter equals its initial value plus the deltas of the calls
\* that wrote.
C10_NoLostUpdate ==
  org["o1"].catalogItemCount
    = start.org.catalogItemCount + netDelta + Written(1) + Written(2)

\* two increments that read the same counter value have both written
C10_Witness ==
  /\ \A w \in Workers :
       qr[w].pc = "done" /\ qr[w].op = "increment" /\ qr[w].err = "none"
  /\ qr[1].count = qr[2].count


\* C11: under every interleaving of invite, reactivate, deactivate and delete
\* the seat counter equals its initial value plus the +1 / -1 of the calls
\* that returned.
C11_NoLostSeatChange ==
  QuotaIdle => org["o1"].seatCount = start.org.seatCount + seatDelta


\* C12: with increments of one item racing on a plan with finite maximum N
\* the catalog counter never exceeds N by more than the number of concurrent
\* callers, and it never exceeds N while no two calls have overlapped.
C12_OvershootBounded ==
  LET N == CatalogLimit(org["o1"].plan, "maxCatalogItems") IN
  N # -1 =>
    /\ org["o1"].catalogItemCount <= N + Cardinality(Workers)
    /\ ~overlap => org["o1"].catalogItemCount <= N

\* two racing increments have taken the counter past the maximum
C12_Witness ==
  /\ overlap
  /\ CatalogLimit(org["o1"].plan, "maxCatalogItems") # -1
  /\ org["o1"].catalogItemCount
       = CatalogLimit(org["o1"].plan, "maxCatalogItems") + 1
  /\ \A w \in Workers : qr[w].op = "increment" /\ qr[w].pc = "done"
                          /\ qr[w].err = "none"


\* C13: a material-type creation whose increment is rejected creates nothing
\* and leaves the counter alone; one whose creation fails after the increment
\* runs the decrement, for a net effect of 0; one that succeeds has a net
\* effect of +1; and under every interleaving the counter is its initial value
\* plus the net effects of the requests.
C13_CreationCompensates ==
  [][/\ org'["o1"].catalogItemCount
          = start'.org.catalogItemCount + netDelta' + qr'[1].net + qr'[2].net
     /\ \A w \in Workers :
          (qr[w].op = "createType" /\ qr[w].pc # "done" /\ qr'[w].pc = "done") =>
            CASE qr[w].pc = "inc.validate" ->
                   /\ qr'[w].net = 0
                   /\ materials' = materials
                   /\ org' = org
              [] qr[w].pc = "dec.write" ->
                   /\ qr'[w].err = "CREATE_FAILED"
                   /\ qr'[w].net = 0
                   /\ materials' = materials
              [] OTHER ->
                   /\ qr[w].pc = "mat.create"
                   /\ qr'[w].err = "none"
                   /\ qr'[w].net = 1
                   /\ materials'.created = materials.created + 1]_vars

\* a creation failed after its increment and was rolled back while another
\* request was in progress
C13_Witness ==
  \E w \in Workers :
    /\ qr[w].op = "createType" /\ qr[w].pc = "done"
    /\ qr[w].err = "CREATE_FAILED" /\ qr[w].net = 0
    /\ \E v \in Workers \ {w} : qr[v].pc \notin {"idle", "done"}


\* C14: in every reachable state the catalog counter is at least 0 and the
\* seat counter is at least 1.
C14_CounterLowerBounds ==
  \A o \in Orgs : org[o].catalogItemCount >= 0 /\ org[o].seatCount >= 1


\* C15: with requests that do not overlap and an unchanged Plan Catalog, the
\* seat counter and the catalog counter stay within the finite maxima of the
\* organization's plan, whatever its billing model.
C15_CountersWithinPlan ==
  /\ CatalogLimit(org["o1"].plan, "maxSeats") # -1
       => org["o1"].seatCount <= CatalogLimit(org["o1"].plan, "maxSeats")
  /\ CatalogLimit(org["o1"].plan, "maxCatalogItems") # -1
       => org["o1"].catalogItemCount
            <= CatalogLimit(org["o1"].plan, "maxCatalogItems")


\* C16: once an organization is cancelled no step changes its status.
C16_CancelledIsTerminal ==
  [][\A o \in Orgs :
       org[o].status = "cancelled" => org'[o].status = "cancelled"]_vars


\* C17: a status becomes cancelled only from active, and a cancellation that
\* is not immediate leaves the status as it was.
C17_CancelledOnlyFromActive ==
  [][/\ \A o \in Orgs :
          (org[o].status # "cancelled" /\ org'[o].status = "cancelled")
            => org[o].status = "active"
     /\ \A w \in Workers :
          (qr[w].op = "cancel" /\ ~qr[w].immediately /\ qr'[w] # qr[w])
            => org'["o1"].status = org["o1"].status]_vars

\* C18: under every interleaving with deliveries and cancellations the write
\* of the status gate only moves active to suspended: it never replaces the
\* status cancelled.
C18_GateNeverOverwritesCancelled ==
  [][\A w \in Workers :
       (qr[w].op = "gate" /\ qr[w].pc = "gate.write" /\ qr'[w].pc = "done")
         => org["o1"].status # "cancelled"]_vars

\* the period end the gate compares with the clock
Expired == org["o1"].currentPeriodEnd # 0 /\ org["o1"].currentPeriodEnd < now

C20_PaymentFailedSuspends ==
  [][/\ \A d \in Workers :
          (del[d].ev = "evt_failed" /\ del[d].pc = "handler"
             /\ del'[d].pc = "mark") =>
            /\ org'["o1"].status = "suspended"
            /\ audit'[<<"o1", "payment_failed", "in_2">>] = applied'["evt_failed"]
     /\ \A w \in Workers :
          (org["o1"].status = "suspended" /\ qr'[w] # qr[w]) =>
            /\ (qr[w].op = "gate" /\ qr[w].pc = "gate.find") =>
                 (qr'[w].pc = "done" /\ qr'[w].status = "suspended"
                    /\ ~qr'[w].can)
            /\ (qr[w].op = "requireActive" /\ qr[w].pc = "req.find") =>
                 (qr'[w].pc = "done"
                    /\ qr'[w].err = "ORGANIZATION_SUSPENDED")]_vars

\* the only event delivered was the payment failure, and the check that
\* followed it rejected the organization, whose period had not ended
C20_Witness ==
  /\ start.org.status = "active"
  /\ ~Expired
  /\ applied["evt_failed"] = 1
  /\ attempts["evt_failed"] = 1 /\ attempts["evt_paid"] = 0
  /\ attempts["evt_sub"] = 0
  /\ \E w \in Workers : /\ qr[w].op = "requireActive" /\ qr[w].pc = "done"
                        /\ qr[w].err = "ORGANIZATION_SUSPENDED"

\* C21: a webhook request whose signature header is missing or does not
\* verify is rejected in the route, before handleWebhookEvent runs: the
\* request never leaves the rejected state, and receiving it creates or
\* modifies no BillingEvent row and changes no organization.
C21_UnsignedRejected ==
  [][\A d \in Workers :
       /\ del'[d].signature # "valid" => del'[d].pc = "rejected"
       /\ (del[d].pc = "idle" /\ del'[d].pc # "idle"
             /\ del'[d].signature # "valid") =>
            /\ rows' = rows /\ audit' = audit /\ org' = org
            /\ handlerCalls' = handlerCalls /\ applied' = applied
       /\ (del[d].pc = "rejected" /\ del'[d] # del[d]) =>
            /\ del'[d].pc = "idle"
            /\ rows' = rows /\ audit' = audit /\ org' = org
            /\ handlerCalls' = handlerCalls /\ applied' = applied]_vars

\* a forged checkout event was rejected: no row for it, no organization
\* activated
C21_Witness ==
  \E d \in Workers :
    /\ del[d].pc = "rejected" /\ del[d].signature = "forged"
    /\ del[d].ev = "evt_checkout"
    /\ ~rows["evt_checkout"].exists
    /\ org = FreshOrgs

\* C22: a correctly signed request whose event is durably recorded, as
\* processed or with an error, is answered with status 200.
C22_RecordedAnswered200 ==
  \A d \in Workers :
    (/\ del[d].signature = "valid"
     /\ del[d].pc \in {"returned", "replayed", "failed"}
     /\ rows[del[d].ev].exists
     /\ rows[del[d].ev].processed \/ rows[del[d].ev].error # "none") =>
      responseStatus(d) = 200

\* C24: external price references are created exactly once per plan: over
\* any interleaving of checkout calls, provider rejections and retries
\* included, the provider holds at most one base and one seat price object
\* per plan, and a reference stored on the plan is never replaced.
C24_PricesCreatedOnce ==
  [][\A p \in CheckoutPlans :
       /\ provider'.prices[p].base <= 1
       /\ provider'.prices[p].seat <= 1
       /\ catalog[p].stripePriceIdBase # 0 =>
            catalog'[p].stripePriceIdBase = catalog[p].stripePriceIdBase
       /\ catalog[p].stripePriceIdSeat # 0 =>
            catalog'[p].stripePriceIdSeat = catalog[p].stripePriceIdSeat]_vars

\* C23: single-writer discipline on the Organization Subscription Record:
\* plan and currentPeriodEnd change only in a step of a webhook handler;
\* status changes only in a step of a webhook handler, in the write of the
\* status gate or in an immediate cancellation; every step of a checkout or
\* portal request, a seat-quantity update, a user invite / deactivate /
\* reactivate / delete and a material-type route leaves the three unchanged.
C23_SingleWriter ==
  [][\A o \in Orgs :
       LET hook == \E d \in Workers : del[d].pc = "handler" /\ del'[d] # del[d]
           gate == \E w \in Workers : /\ qr[w].op = "gate" /\ qr[w].pc = "gate.write"
                                      /\ qr'[w] # qr[w]
           cancel == \E w \in Workers : /\ qr[w].op = "cancel" /\ qr[w].immediately
                                        /\ qr'[w] # qr[w]
           other == \/ cs' # cs
                    \/ \E w \in Workers :
                         /\ qr'[w] # qr[w]
                         /\ (IF qr[w].pc = "idle" THEN qr'[w].op ELSE qr[w].op)
                              \in {"updateSeats", "invite", "reactivate",
                                   "deactivate", "delete", "createType",
                                   "deleteType"}
       IN /\ (org'[o].plan # org[o].plan
                \/ org'[o].currentPeriodEnd # org[o].currentPeriodEnd) => hook
          /\ org'[o].status # org[o].status => (hook \/ gate \/ cancel)
          /\ other => /\ org'[o].plan = org[o].plan
                      /\ org'[o].status = org[o].status
                      /\ org'[o].currentPeriodEnd = org[o].currentPeriodEnd]_vars

\* a checkout stored a customer reference for o1 and opened a session while
\* the plan stayed free; the completed-checkout event then changed the plan
C23_Witness ==
  /\ start.org.stripeCustomerId = "null"
  /\ org["o1"].stripeCustomerId = "cus_1"
  /\ provider.sessions = 1
  /\ start.org.plan = "free"
  /\ applied["evt_checkout"] = 1
  /\ org["o1"].plan # "free"

\* C25: the read path of the Plan Limits Cache: getPlanLimits serves the
\* cached map without querying the catalog exactly when a map is built and
\* its age is strictly under CACHE_TTL_MS; otherwise it queries the catalog,
\* installs a map of exactly the status=active plans stamped with the time
\* read as the rebuild began, and serves that map. The result is NotFound
\* exactly when the requested key is not in the served map.
C25_CacheReadPath ==
  [][\A w \in Workers :
       /\ (pq[w].pc = "idle" /\ pq'[w].op = "getPlanLimits") =>
            IF planLimitsCache.built /\ now - cacheTimestamp < 300000
            THEN /\ pq'[w].pc = "done"
                 /\ pq'[w].map = planLimitsCache.map
                 /\ pq'[w].res = "NOT_FOUND" <=>
                      pq'[w].plan \notin DOMAIN planLimitsCache.map
                 /\ UNCHANGED <<planLimitsCache, cacheTimestamp, catalog>>
            ELSE /\ pq'[w].pc = "query"
                 /\ UNCHANGED <<planLimitsCache, cacheTimestamp, catalog>>
       /\ (pq[w].pc = "install" /\ pq'[w].pc = "done") =>
            LET active == {k \in PlanKeys : catalog[k].exists
                                             /\ catalog[k].status = "active"} IN
            /\ planLimitsCache'.built
            /\ DOMAIN planLimitsCache'.map = active
            /\ \A k \in active :
                 /\ planLimitsCache'.map[k].maxSeats = catalog[k].maxSeats
                 /\ planLimitsCache'.map[k].maxCatalogItems
                      = catalog[k].maxCatalogItems
                 /\ planLimitsCache'.map[k].billingModel = catalog[k].billingModel
            /\ cacheTimestamp' = pq[w].localNow
            /\ pq'[w].res = "NOT_FOUND" <=> pq[w].plan \notin active
            /\ pq'[w].res \in {"ok", "NOT_FOUND"}]_vars

\* a read found a built map whose age equals the window and went to the
\* catalog
C25_Witness ==
  \E w \in Workers :
    /\ pq[w].op = "getPlanLimits" /\ pq[w].pc = "query"
    /\ planLimitsCache.built
    /\ pq[w].localNow - cacheTimestamp = CACHE_TTL_MS

C27_UpdateDeactivate ==
  [][/\ \A k \in PlanKeys : catalog[k].exists => catalog'[k].exists
     /\ \A w \in Workers :
          LET p == pq'[w].plan IN
          /\ (pq[w].pc = "idle" /\ pq'[w].op = "update") =>
               IF catalog[p].exists
               THEN /\ pq'[w].pc = "invalidate"
                    /\ \A k \in PlanKeys \ {p} : catalog'[k] = catalog[k]
               ELSE /\ pq'[w].pc = "done" /\ pq'[w].res = "NOT_FOUND"
                    /\ catalog' = catalog
          /\ (pq[w].pc = "idle" /\ pq'[w].op = "deactivate") =>
               IF catalog[p].exists
               THEN /\ pq'[w].pc = "invalidate"
                    /\ catalog' = [catalog EXCEPT ![p].status = "inactive"]
               ELSE /\ pq'[w].pc = "done" /\ pq'[w].res = "NOT_FOUND"
                    /\ catalog' = catalog
          /\ (pq[w].op \in {"update", "deactivate"} /\ pq[w].pc = "invalidate"
                /\ pq'[w].pc = "done") =>
               /\ pq'[w].res = "ok"
               /\ catalog' = catalog]_vars

\* a deactivate of a plan that was inactive already has returned success
C27_Witness ==
  \E w \in Workers :
    /\ pq[w].op = "deactivate" /\ pq[w].pc = "done" /\ pq[w].res = "ok"
    /\ pq[w].wrote >= 2
    /\ history[pq[w].wrote - 1][pq[w].plan].exists
    /\ history[pq[w].wrote - 1][pq[w].plan].status = "inactive"
    /\ history[pq[w].wrote][pq[w].plan].status = "inactive"

\* C28: createCheckoutSession for the free plan fails with BadRequest at
\* once: the request creates no product, price, customer or session at the
\* provider and changes no organization, plan document or cache.
C28_FreePlanRejected ==
  [][\A w \in Workers :
       /\ (cs[w].pc = "idle" /\ cs'[w].op = "checkout"
             /\ cs'[w].plan = "free") =>
            /\ cs'[w].pc = "done" /\ cs'[w].err = "BAD_REQUEST"
            /\ UNCHANGED <<provider, org, catalog, planLimitsCache>>
       /\ (cs[w].op = "checkout" /\ cs[w].plan = "free"
             /\ cs'[w] # cs[w]) =>
            /\ cs'[w].pc = "idle"
            /\ UNCHANGED <<provider, org, catalog, planLimitsCache>>]_vars

\* the first request was a checkout for the free plan and has been refused
C28_Witness ==
  \E w \in Workers :
    /\ cs[w].op = "checkout" /\ cs[w].plan = "free"
    /\ cs[w].pc = "done" /\ cs[w].err = "BAD_REQUEST"
    /\ csOps = 1
    /\ provider = NoProviderObjects
    /\ org["o1"] = start.org

\* C29: order tolerance: once the newer and the older subscription-updated
\* event of sub_1 have both been processed, in whichever order they were
\* delivered, the stored period end and cancel flag are those of the newer
\* event.
C29_NewerEventWins ==
  (rows["evt_sub"].processed /\ rows["evt_sub_old"].processed
     /\ \A d \in Workers : del[d].pc = "idle") =>
    /\ org["o1"].currentPeriodEnd = Event["evt_sub"].periodEnd
    /\ org["o1"].cancelAtPeriodEnd = Event["evt_sub"].cancelAtPeriodEnd

\* C30: a step of the subscription created / updated handler stores the
\* event's subscription reference, period end and cancel flag, changes the
\* status only when the provider reports the subscription active and the
\* organization is suspended (an active or cancelled organization keeps its
\* status), and leaves plan, seatCount and catalogItemCount unchanged.
C30_SubscriptionUpdatedEffect ==
  [][\A d \in Workers :
       LET ev == Event[del[d].ev] IN
       (/\ del[d].pc = "handler" /\ del'[d] # del[d]
        /\ ev.type \in {"customer.subscription.created",
                        "customer.subscription.updated"}
        /\ ev.org \in Orgs) =>
         /\ org'[ev.org].plan = org[ev.org].plan
         /\ org'[ev.org].seatCount = org[ev.org].seatCount
         /\ org'[ev.org].catalogItemCount = org[ev.org].catalogItemCount
         /\ del[d].step = 1 =>
              /\ org'[ev.org].stripeSubscriptionId = ev.subscription
              /\ org'[ev.org].cancelAtPeriodEnd = ev.cancelAtPeriodEnd
              /\ ev.periodEnd # 0 => org'[ev.org].currentPeriodEnd = ev.periodEnd
         /\ org'[ev.org].status # org[ev.org].status =>
              (ev.subStatus = "active" /\ org[ev.org].status = "suspended")]_vars


\* C31: once a delivery of the completed-checkout event has ended, the
\* organization that carries the event's plan also carries the event's
\* subscription reference and seat count: the handler never leaves the new
\* plan with the old seat count
C31_CheckoutAppliedTogether ==
  \A d \in Workers :
    (/\ del[d].ev = "evt_checkout"
     /\ del[d].pc \in {"returned", "failed"}
     /\ org["o1"].plan = Event["evt_checkout"].plan)
    => /\ org["o1"].stripeSubscriptionId = Event["evt_checkout"].subscription
       /\ org["o1"].seatCount = Event["evt_checkout"].seatCount


\* C32: the invoice-paid handler writes status active only onto an
\* organization that is suspended at the moment of the write; it never changes
\* the status of an active or a cancelled organization
C32_PaidReactivatesOnlySuspended ==
  [][\A d \in Workers :
       (/\ del[d].pc = "handler"
        /\ Event[del[d].ev].type = "invoice.paid"
        /\ del'[d] # del[d]
        /\ org' # org)
       => org[del[d].seen].status = "suspended"]_vars


\* C33: the subscription-deleted handler sets the organization's plan to free
\* and appends one subscription-cancelled audit row; its steps leave status,
\* seatCount, catalogItemCount, the customer and subscription references and
\* the billing-period fields of every organization as they were
C33_SubscriptionDeletedEffect ==
  [][\A d \in Workers :
       LET ev == Event[del[d].ev]
           k == <<ev.org, "subscription_cancelled", ev.subscription>>
       IN
       (/\ del[d].pc = "handler"
        /\ ev.type = "customer.subscription.deleted"
        /\ del'[d] # del[d])
       => /\ \A o \in Orgs : org'[o] = [org[o] EXCEPT !.plan = org'[o].plan]
          /\ \A o \in Orgs \ {ev.org} : org'[o] = org[o]
          /\ del[d].step = 1 => org'[ev.org].plan = "free" /\ audit' = audit
          /\ del'[d].pc = "mark" =>
               /\ org[ev.org].plan = "free" /\ org' = org
               /\ audit' = [audit EXCEPT ![k] = @ + 1]]_vars

\* C33 witness: the deleted event has been handled for an organization that
\* had subscribed to starter with three seats: plan free, one cancellation
\* row, seat count and subscription reference as the checkout left them
C33_Witness ==
  \E d \in Workers :
    /\ del[d].ev = "evt_deleted" /\ del[d].pc = "returned"
    /\ org["o1"].plan = "free"
    /\ org["o1"].seatCount = 3
    /\ org["o1"].stripeSubscriptionId = "sub_1"
    /\ audit[<<"o1", "subscription_cancelled", "sub_1">>] = 1


\* C34: a delivery of an event of unrecognized type changes no organization
\* and appends no audit row and invokes no handler; it ends with the event's
\* BillingEvent row marked processed, so a later delivery of the event is
\* answered as already processed
C34_UnrecognizedEventMarked ==
  [][\A d \in Workers :
       LET e == del[d].ev IN
       (/\ del[d].pc # "idle"
        /\ Event[e].type \notin HandledTypes
        /\ del'[d] # del[d])
       => /\ org' = org /\ audit' = audit
          /\ handlerCalls' = handlerCalls /\ applied' = applied
          /\ del'[d].pc \in {"mark", "returned", "replayed", "idle"}
          /\ del'[d].pc = "returned" =>
               rows'[e].exists /\ rows'[e].processed /\ rows'[e].error = "none"
          /\ (del[d].pc = "lookup" /\ attempts[e] >= 2) =>
               del'[d].pc = "replayed"]_vars

\* C34 witness: the second delivery of the refund event has been answered at
\* the idempotency test, the organizations being as registered
C34_Witness ==
  \E d \in Workers :
    /\ del[d].ev = "evt_other" /\ del[d].pc = "replayed"
    /\ attempts["evt_other"] = 2
    /\ rows["evt_other"].processed
    /\ org = FreshOrgs


\* C35: customer references are created at most once per organization: over
\* any interleaving of checkout calls the provider holds at most one customer
\* object created for the organization, and a stored reference never changes
C35_CustomerCreatedOnce ==
  [][/\ provider'.customers <= 1
     /\ org["o1"].stripeCustomerId # "null" =>
          org'["o1"].stripeCustomerId = org["o1"].stripeCustomerId]_vars


\* C36: each provider event contributes at most one business audit row, also
\* when a delivery fails after the handler appended its row and the event is
\* delivered and processed again
C36_OneAuditRowPerEvent ==
  \A a \in AuditKinds : audit[a] <= 1


\* the users that hold a seat: the owner and every active or invited member
SeatHolders == 1 + Cardinality({u \in Users : users[u] \in {"active", "invited"}})

\* C37: seat accounting matches the roster: between non-overlapping invite,
\* accept-invite, deactivate, reactivate and delete requests, seatCount equals
\* the number of users whose status is active or invited
C37_SeatCountMatchesRoster ==
  QuotaIdle => org["o1"].seatCount = SeatHolders


\* C38: reactivation is stable against the lazy-expiry gate: once the
\* invoice-paid handler has moved a suspended organization back to active,
\* and while no payment-failed event and no subscription-updated event has
\* been delivered, a step of the gate leaves the status active
C38_ReactivationStable ==
  [][\A w \in Workers :
       (/\ start.org.status = "suspended"
        /\ applied["evt_paid"] >= 1
        /\ attempts["evt_failed"] = 0
        /\ attempts["evt_sub"] = 0
        /\ org["o1"].status = "active"
        /\ qr[w].op = "gate"
        /\ qr'[w] # qr[w])
       => org'["o1"].status = "active"]_vars


\* C39: the seat check agrees with the seat validation: canAddSeat answers
\* true for a stored plan and seat count s exactly when validateSeatCount, as
\* called by updateSeatCount(org, s + 1), passes
C39_SeatCheckAgreesWithValidation ==
  \A w \in Workers :
    (qr[w].op = "canAddSeat" /\ qr[w].pc = "done" /\ qr[w].err = "none")
    => (qr[w].can <=> validateSeatCount(qr[w].plan, qr[w].count + 1) = "ok")


\* C40: an organization that is not active consumes no quota. A request to
\* a guarded route whose active-organization check finds the organization
\* suspended or cancelled ends there with the matching error and nothing
\* changed, and every step that changes seatCount or catalogItemCount is taken
\* for an active organization
C40_InactiveConsumesNoQuota ==
  [][/\ \A w \in Workers :
          (/\ qr[w].op \in GuardedOps
           /\ qr[w].pc = "req.find"
           /\ org["o1"].status \in {"suspended", "cancelled"}
           /\ qr'[w] # qr[w])
          => /\ qr'[w].pc = "done"
             /\ qr'[w].err = IF org["o1"].status = "suspended"
                             THEN "ORGANIZATION_SUSPENDED"
                             ELSE "ORGANIZATION_CANCELLED"
             /\ org' = org /\ users' = users /\ materials' = materials
     /\ (\/ org'["o1"].seatCount # org["o1"].seatCount
         \/ org'["o1"].catalogItemCount # org["o1"].catalogItemCount)
        => org["o1"].status = "active"]_vars

\* C40 witness: an invitation sent to a cancelled organization has been
\* turned away, seat count and roster being as at the start
C40_Witness ==
  \E w \in Workers :
    /\ qr[w].op = "invite" /\ qr[w].pc = "done"
    /\ qr[w].err = "ORGANIZATION_CANCELLED"
    /\ org["o1"].status = "cancelled"
    /\ org["o1"].seatCount = start.org.seatCount
    /\ users = start.users

====
